---- MODULE Spec2Model ----
(***************************************************************************)
(* A model of the Jack compiler front end of nand2tetris:                  *)
(*   projects/10/JackTokenizer.py     the token stream                     *)
(*   projects/11/CompilationEngine.py the single-pass compiler driver      *)
(*   projects/08/CodeWriter.py        the stack machine its output runs on *)
(* The driver is a recursive-descent parser that emits VM instructions     *)
(* while it parses.  It is modelled as a state machine with an explicit    *)
(* call stack: one action per stretch of a compile_* routine between two   *)
(* calls of another compile_* routine.                                     *)
(*                                                                         *)
(* Python strings that are lexemes (tokens, names built from tokens,       *)
(* labels) are sequences of one-character strings; Python strings that are *)
(* fixed enumeration values ("KEYWORD", "CONST", "NOT", ...) are strings.  *)
(***************************************************************************)
EXTENDS Integers, Sequences, FiniteSets, TLC

VARIABLES
    unit,                   \* the compilation unit (one class) whose text is lexed
    tokens,                 \* JackTokenizer.tokens
    current_index,          \* JackTokenizer.current_index
    current_token,          \* JackTokenizer.current_token
    class_scope,            \* SymbolTable: STATIC/FIELD entries
    subroutine_scope,       \* SymbolTable: ARG/VAR entries
    counts,                 \* SymbolTable: next ordinal per kind
    current_class,          \* CompilationEngine.current_class
    subroutine_type,        \* CompilationEngine.subroutine_type
    current_function_name,  \* CompilationEngine.current_function_name
    label_counter,          \* CompilationEngine.label_counter
    out,                    \* the instructions handed to the VMWriter, in order
    stack,                  \* the Python call stack of compile_* routines
    retval,                 \* the value returned by the routine that returned last
    status,                 \* "init", "running", "done" or "error"
    tokenizer,              \* JackTokenizer.__init__: how far it is, its input and locals
    translator,             \* translate_file: its Parser, its CodeWriter and the output
    cpu                     \* the computer running the assembled output

vars == <<unit, tokens, current_index, current_token, class_scope,
          subroutine_scope, counts, current_class, subroutine_type,
          current_function_name, label_counter, out, stack, retval, status,
          tokenizer, translator, cpu>>

(***************************************************************************)
(* Lexemes.                                                                *)
(***************************************************************************)
kw_class == <<"c", "l", "a", "s", "s">>
kw_constructor == <<"c", "o", "n", "s", "t", "r", "u", "c", "t", "o", "r">>
kw_function == <<"f", "u", "n", "c", "t", "i", "o", "n">>
kw_method == <<"m", "e", "t", "h", "o", "d">>
kw_field == <<"f", "i", "e", "l", "d">>
kw_static == <<"s", "t", "a", "t", "i", "c">>
kw_var == <<"v", "a", "r">>
kw_int == <<"i", "n", "t">>
kw_char == <<"c", "h", "a", "r">>
kw_boolean == <<"b", "o", "o", "l", "e", "a", "n">>
kw_void == <<"v", "o", "i", "d">>
kw_true == <<"t", "r", "u", "e">>
kw_false == <<"f", "a", "l", "s", "e">>
kw_null == <<"n", "u", "l", "l">>
kw_this == <<"t", "h", "i", "s">>
kw_let == <<"l", "e", "t">>
kw_do == <<"d", "o">>
kw_if == <<"i", "f">>
kw_else == <<"e", "l", "s", "e">>
kw_while == <<"w", "h", "i", "l", "e">>
kw_return == <<"r", "e", "t", "u", "r", "n">>

Keywords ==
    {kw_class, kw_constructor, kw_function, kw_method, kw_field, kw_static,
     kw_var, kw_int, kw_char, kw_boolean, kw_void, kw_true, kw_false, kw_null,
     kw_this, kw_let, kw_do, kw_if, kw_else, kw_while, kw_return}

SymbolChars ==
    {"{", "}", "(", ")", "[", "]", ".", ",", ";", "+", "-", "*", "/", "&",
     "|", "<", ">", "=", "~", "^", "#"}

\* A one-character lexeme.
Ch(c) == <<c>>

Symbols == {Ch(c) : c \in SymbolChars}

DigitChars == {"0", "1", "2", "3", "4", "5", "6", "7", "8", "9"}

IdentifierStartChars ==
    {"A", "B", "C", "D", "E", "F", "G", "H", "I", "J", "K", "L", "M", "N",
     "O", "P", "Q", "R", "S", "T", "U", "V", "W", "X", "Y", "Z",
     "a", "b", "c", "d", "e", "f", "g", "h", "i", "j", "k", "l", "m", "n",
     "o", "p", "q", "r", "s", "t", "u", "v", "w", "x", "y", "z", "_"}

IdentifierChars == IdentifierStartChars \cup DigitChars

\* range(0, 32768)
IntegerConstantMax == 32767

\* The value of JackTokenizer.current_token before the first advance().
None == <<"None">>

DigitVal(c) ==
    CASE c = "0" -> 0 [] c = "1" -> 1 [] c = "2" -> 2 [] c = "3" -> 3
      [] c = "4" -> 4 [] c = "5" -> 5 [] c = "6" -> 6 [] c = "7" -> 7
      [] c = "8" -> 8 [] c = "9" -> 9

\* str.isdigit()
isdigit(tok) == Len(tok) > 0 /\ \A i \in 1..Len(tok) : tok[i] \in DigitChars

\* int(str) of a digit string
RECURSIVE int(_)
int(tok) ==
    IF Len(tok) = 0 THEN 0
    ELSE 10 * int(SubSeq(tok, 1, Len(tok) - 1)) + DigitVal(tok[Len(tok)])

\* str(n) of a natural number
RECURSIVE str(_)
str(n) ==
    IF n < 10 THEN Ch(CHOOSE c \in DigitChars : DigitVal(c) = n)
    ELSE str(n \div 10) \o str(n % 10)

\* str.upper() on the keywords
upper(tok) ==
    CASE tok = kw_class -> "CLASS" [] tok = kw_constructor -> "CONSTRUCTOR"
      [] tok = kw_function -> "FUNCTION" [] tok = kw_method -> "METHOD"
      [] tok = kw_field -> "FIELD" [] tok = kw_static -> "STATIC"
      [] tok = kw_var -> "VAR" [] tok = kw_int -> "INT"
      [] tok = kw_char -> "CHAR" [] tok = kw_boolean -> "BOOLEAN"
      [] tok = kw_void -> "VOID" [] tok = kw_true -> "TRUE"
      [] tok = kw_false -> "FALSE" [] tok = kw_null -> "NULL"
      [] tok = kw_this -> "THIS" [] tok = kw_let -> "LET"
      [] tok = kw_do -> "DO" [] tok = kw_if -> "IF"
      [] tok = kw_else -> "ELSE" [] tok = kw_while -> "WHILE"
      [] tok = kw_return -> "RETURN"

\* str.lower() on the upper-cased keywords
lower(s) == CHOOSE k \in Keywords : upper(k) = s

(***************************************************************************)
(* JackTokenizer: the token stream.                                        *)
(***************************************************************************)
has_more_tokens(index) == index < Len(tokens)

\* The tokenizer after advance(), as [index, token]; tokens is 0-based in
\* the source and 1-based here.
advance(tz) ==
    IF has_more_tokens(tz.index)
    THEN [index |-> tz.index + 1, token |-> tokens[tz.index + 1]]
    ELSE tz

token_type(tok) ==
    IF tok = None THEN "AttributeError"
    ELSE IF tok \in Keywords THEN "KEYWORD"
    ELSE IF tok \in Symbols THEN "SYMBOL"
    ELSE IF isdigit(tok) /\ int(tok) \in 0..IntegerConstantMax THEN "INT_CONST"
    ELSE IF /\ Len(tok) > 0
            /\ tok[1] = "\"" /\ tok[Len(tok)] = "\""
            /\ \A i \in 1..Len(tok) : tok[i] # "\n"
            /\ \A i \in 2..(Len(tok) - 1) : tok[i] # "\""
         THEN "STRING_CONST"
    ELSE IF /\ Len(tok) > 0
            /\ tok[1] \in IdentifierStartChars
            /\ \A i \in 1..Len(tok) : tok[i] \in IdentifierChars
         THEN "IDENTIFIER"
    ELSE "IDENTIFIER"

\* keyword(): the upper-cased keyword; "ValueError" when not a keyword.
keyword(tok) == IF token_type(tok) = "KEYWORD" THEN upper(tok) ELSE "ValueError"

\* symbol(): the character; "ValueError" when not a symbol.
symbol(tok) == IF token_type(tok) = "SYMBOL" THEN tok[1] ELSE "ValueError"

int_val(tok) == int(tok)

\* string_val(): current_token[1:-1]
string_val(tok) == SubSeq(tok, 2, Len(tok) - 1)

(***************************************************************************)
(* JackTokenizer.__init__: from the text of the input stream to the        *)
(* tokens.  Text is a sequence of characters.                              *)
(***************************************************************************)
\* Element number j of a set of places, in ascending order.
Nth(places, j) == CHOOSE p \in places : Cardinality({q \in places : q <= p}) = j

\* The characters str.isspace() holds for, as far as texts use them.
WhitespaceChars == {" ", "\t", "\n", "\r", "\f"}

\* s[i:i+2], i counted from 0
Slice2(s, i) == SubSeq(s, i + 1, IF i + 2 <= Len(s) THEN i + 2 ELSE Len(s))

\* One round of the loop of _delete_comments; t holds input and the locals
\* i, result, in_block_comment, in_line_comment.
DeleteStep(t) ==
    IF t.in_block_comment
    THEN IF Slice2(t.input, t.i) = <<"*", "/">>
         THEN [t EXCEPT !.in_block_comment = FALSE, !.i = @ + 2]
         ELSE [t EXCEPT !.i = @ + 1]
    ELSE IF t.in_line_comment
    THEN IF t.input[t.i + 1] = "\n"
         THEN [t EXCEPT !.in_line_comment = FALSE,
                        !.result = Append(@, t.input[t.i + 1]),
                        !.i = @ + 1]
         ELSE [t EXCEPT !.i = @ + 1]
    ELSE IF Slice2(t.input, t.i) = <<"/", "*">>
    THEN [t EXCEPT !.in_block_comment = TRUE, !.i = @ + 2]
    ELSE IF Slice2(t.input, t.i) = <<"/", "/">>
    THEN [t EXCEPT !.in_line_comment = TRUE, !.i = @ + 2]
    ELSE [t EXCEPT !.result = Append(@, t.input[t.i + 1]), !.i = @ + 1]

\* str.split('"')
split(s) ==
    LET quotes == {k \in 1..Len(s) : s[k] = "\""}
        n == Cardinality(quotes)
        from(k) == IF k = 1 THEN 1 ELSE Nth(quotes, k - 1) + 1
        to(k) == IF k = n + 1 THEN Len(s) ELSE Nth(quotes, k) - 1
    IN  [k \in 1..(n + 1) |-> SubSeq(s, from(k), to(k))]

\* _isolate_strings: the pieces between the quotes, every second one put
\* back in quotes.
IsolatedStrings(input) ==
    LET pieces == split(input)
    IN  [k \in 1..Len(pieces) |->
            IF k % 2 = 0 THEN <<"\"">> \o pieces[k] \o <<"\"">> ELSE pieces[k]]

\* if current_token: new_tokens.append(current_token), for the local
\* current_token of _split_non_string_tokens
Flushed(new_tokens, token_so_far) ==
    IF token_so_far # <<>> THEN Append(new_tokens, token_so_far)
    ELSE new_tokens

\* for char in token, from character k on
RECURSIVE SplitChars(_, _, _, _)
SplitChars(token, k, token_so_far, new_tokens) ==
    IF k > Len(token) THEN Flushed(new_tokens, token_so_far)
    ELSE IF Ch(token[k]) \in Symbols
    THEN SplitChars(token, k + 1, <<>>,
                    Append(Flushed(new_tokens, token_so_far), Ch(token[k])))
    ELSE IF token[k] \in WhitespaceChars
    THEN SplitChars(token, k + 1, <<>>, Flushed(new_tokens, token_so_far))
    ELSE SplitChars(token, k + 1, Append(token_so_far, token[k]), new_tokens)

\* _split_non_string_tokens: for token in self.tokens, from piece k on
RECURSIVE SplitTokens(_, _, _)
SplitTokens(pieces, k, new_tokens) ==
    IF k > Len(pieces) THEN new_tokens
    ELSE LET token == pieces[k]
         IN  IF Len(token) > 0 /\ token[1] = "\"" /\ token[Len(token)] = "\""
             THEN SplitTokens(pieces, k + 1, Append(new_tokens, token))
             ELSE SplitTokens(pieces, k + 1,
                              SplitChars(token, 1, <<>>, new_tokens))

(***************************************************************************)
(* SymbolTable (projects/11, not among the sources): the two-level scope   *)
(* table, after its contract.  st is [class_scope, subroutine_scope,       *)
(* counts]; a scope maps a name to [type, kind, index].                    *)
(***************************************************************************)
\* What kind_of, type_of and index_of answer for an unresolved name.
Unresolved == "None"
UnresolvedIndex == -1

EmptyScope == [n \in {} |-> [type |-> <<>>, kind |-> "", index |-> 0]]

NewSymbolTable ==
    [class_scope |-> EmptyScope,
     subroutine_scope |-> EmptyScope,
     counts |-> [STATIC |-> 0, FIELD |-> 0, ARG |-> 0, VAR |-> 0]]

Bind(scope, name, entry) ==
    [n \in DOMAIN scope \cup {name} |-> IF n = name THEN entry ELSE scope[n]]

define(st, name, type, kind) ==
    LET entry == [type |-> type, kind |-> kind, index |-> st.counts[kind]]
        counted == [st EXCEPT !.counts[kind] = @ + 1]
    IN  IF kind \in {"STATIC", "FIELD"}
        THEN [counted EXCEPT !.class_scope = Bind(@, name, entry)]
        ELSE [counted EXCEPT !.subroutine_scope = Bind(@, name, entry)]

start_subroutine(st) ==
    [st EXCEPT !.subroutine_scope = EmptyScope,
               !.counts = [@ EXCEPT !.ARG = 0, !.VAR = 0]]

var_count(st, kind) == st.counts[kind]

Resolves(st, name) ==
    name \in DOMAIN st.subroutine_scope \cup DOMAIN st.class_scope

Lookup(st, name) ==
    IF name \in DOMAIN st.subroutine_scope
    THEN st.subroutine_scope[name]
    ELSE st.class_scope[name]

kind_of(st, name) == IF Resolves(st, name) THEN Lookup(st, name).kind ELSE Unresolved

type_of(st, name) == IF Resolves(st, name) THEN Lookup(st, name).type ELSE None

index_of(st, name) ==
    IF Resolves(st, name) THEN Lookup(st, name).index ELSE UnresolvedIndex

(***************************************************************************)
(* VMWriter (projects/11, not among the sources): an unvalidated sink.     *)
(* An instruction is recorded as the driver hands it over.                 *)
(***************************************************************************)
write_push(o, segment, index) == Append(o, <<"push", segment, index>>)
write_pop(o, segment, index) == Append(o, <<"pop", segment, index>>)
write_arithmetic(o, command) == Append(o, <<"arithmetic", command>>)
write_label(o, label) == Append(o, <<"label", label>>)
write_goto(o, label) == Append(o, <<"goto", label>>)
write_if(o, label) == Append(o, <<"if-goto", label>>)
write_call(o, name, n_args) == Append(o, <<"call", name, n_args>>)
write_function(o, name, n_locals) == Append(o, <<"function", name, n_locals>>)
write_return(o) == Append(o, <<"return">>)

(***************************************************************************)
(* The driver's state as one record, and the ways a step can end.          *)
(***************************************************************************)
Cur ==
    [tz |-> [index |-> current_index, token |-> current_token],
     st |-> [class_scope |-> class_scope,
             subroutine_scope |-> subroutine_scope,
             counts |-> counts],
     current_class |-> current_class,
     subroutine_type |-> subroutine_type,
     current_function_name |-> current_function_name,
     label_counter |-> label_counter,
     out |-> out]

NoLocals == [none |-> TRUE]

Top == stack[Len(stack)]
L == Top.l

At(fn, pc) ==
    /\ status = "running"
    /\ stack # <<>>
    /\ Top.fn = fn
    /\ Top.pc = pc

\* How a step ends: it calls a routine and will resume at pc with locals l,
\* it goes on at pc, it returns value v, or it raises an exception.
Call(m, fn, pc, l) == [m |-> m, t |-> "call", fn |-> fn, pc |-> pc, l |-> l, v |-> 0]
Goto(m, pc, l) == [m |-> m, t |-> "goto", fn |-> "", pc |-> pc, l |-> l, v |-> 0]
Return(m, v) == [m |-> m, t |-> "return", fn |-> "", pc |-> 0, l |-> NoLocals, v |-> v]
\* Raise with the output written so far thrown away.
Raise_discarding(m) ==
    [m |-> [m EXCEPT !.out = <<>>], t |-> "raise", fn |-> "", pc |-> 0,
     l |-> NoLocals, v |-> 0]

Raise(m) == [m |-> m, t |-> "raise", fn |-> "", pc |-> 0, l |-> NoLocals, v |-> 0]

Resumed(r) == [stack EXCEPT ![Len(stack)] = [fn |-> Top.fn, pc |-> r.pc, l |-> r.l]]

\* The interpreter's limit on the depth of calls (1000 frames by default),
\* scaled down: a call beyond it raises RecursionError.
RecursionLimit == 24

\* How a step really ends: a call at the recursion limit is a raise.
Ended(r) ==
    IF r.t = "call" /\ Len(stack) >= RecursionLimit THEN Raise(r.m) ELSE r

Apply(rr) ==
    LET r == Ended(rr) IN
    /\ current_index' = r.m.tz.index
    /\ current_token' = r.m.tz.token
    /\ class_scope' = r.m.st.class_scope
    /\ subroutine_scope' = r.m.st.subroutine_scope
    /\ counts' = r.m.st.counts
    /\ current_class' = r.m.current_class
    /\ subroutine_type' = r.m.subroutine_type
    /\ current_function_name' = r.m.current_function_name
    /\ label_counter' = r.m.label_counter
    /\ out' = r.m.out
    /\ stack' = CASE r.t = "call" ->
                       Append(Resumed(r), [fn |-> r.fn, pc |-> 0, l |-> NoLocals])
                  [] r.t = "goto" -> Resumed(r)
                  [] r.t = "return" -> SubSeq(stack, 1, Len(stack) - 1)
                  [] r.t = "raise" -> <<>>
    /\ retval' = IF r.t = "return" THEN r.v ELSE retval
    /\ status' = CASE r.t = "raise" -> "error"
                   [] r.t = "return" /\ Len(stack) = 1 -> "done"
                   [] OTHER -> "running"
    /\ UNCHANGED <<unit, tokens, tokenizer, translator, cpu>>

\* The token the tokenizer of m is at, and its classification.
Tok(m) == m.tz.token
Is(m, c) == Tok(m) = Ch(c)
IsKeyword(m, ks) == token_type(Tok(m)) = "KEYWORD" /\ keyword(Tok(m)) \in ks
IsIdentifier(m) == token_type(Tok(m)) = "IDENTIFIER"
Adv(m) == [m EXCEPT !.tz = advance(@)]

\* _parse_type: [ok, type, m]
parse_type(m) ==
    IF IsKeyword(m, {"INT", "CHAR", "BOOLEAN"})
    THEN [ok |-> TRUE, type |-> lower(keyword(Tok(m))), m |-> Adv(m)]
    ELSE IF IsIdentifier(m)
    THEN [ok |-> TRUE, type |-> Tok(m), m |-> Adv(m)]
    ELSE [ok |-> FALSE, type |-> None, m |-> m]

(***************************************************************************)
(* compile_class                                                           *)
(***************************************************************************)
compile_class_0 ==
    /\ At("compile_class", 0)
    /\ Apply(
        LET m0 == Cur
            m1 == Adv(m0)
            m2 == Adv([m1 EXCEPT !.current_class = Tok(m1)])
        IN  IF ~IsKeyword(m0, {"CLASS"}) THEN Raise(m0)
            ELSE IF ~IsIdentifier(m1) THEN Raise(m1)
            ELSE IF ~Is(m2, "{") THEN Raise(m2)
            ELSE Goto(Adv(m2), 1, NoLocals))

\* while classVarDec
compile_class_1 ==
    /\ At("compile_class", 1)
    /\ Apply(
        IF IsKeyword(Cur, {"STATIC", "FIELD"})
        THEN Call(Cur, "compile_class_var_dec", 1, NoLocals)
        ELSE Goto(Cur, 2, NoLocals))

\* while subroutineDec, then '}'
compile_class_2 ==
    /\ At("compile_class", 2)
    /\ Apply(
        IF IsKeyword(Cur, {"CONSTRUCTOR", "FUNCTION", "METHOD"})
        THEN Call(Cur, "compile_subroutine", 2, NoLocals)
        ELSE IF ~Is(Cur, "}") THEN Raise(Cur)
        ELSE Return(Adv(Cur), 0))

(***************************************************************************)
(* compile_class_var_dec                                                   *)
(***************************************************************************)
compile_class_var_dec_0 ==
    /\ At("compile_class_var_dec", 0)
    /\ Apply(
        IF ~IsKeyword(Cur, {"STATIC", "FIELD"}) THEN Return(Cur, 0)
        ELSE LET kind == keyword(Tok(Cur))
                 t == parse_type(Adv(Cur))
             IN  IF ~t.ok THEN Raise(t.m)
                 ELSE Goto(t.m, 1, [kind |-> kind, var_type |-> t.type]))

\* One turn of the loop over the names, and what follows the loop.
compile_class_var_dec_1 ==
    /\ At("compile_class_var_dec", 1)
    /\ Apply(
        IF ~IsIdentifier(Cur) THEN Raise(Cur)
        ELSE LET m1 == Adv([Cur EXCEPT
                            !.st = define(@, Tok(Cur), L.var_type, L.kind)])
             IN  IF Is(m1, ",") THEN Goto(Adv(m1), 1, L)
                 ELSE IF ~Is(m1, ";") THEN Raise(m1)
                 ELSE Return(Adv(m1), 0))

(***************************************************************************)
(* compile_subroutine                                                      *)
(***************************************************************************)
\* EnterSubroutine with the label counter started again for the
\* subroutine.
EnterSubroutine_relabel(m) ==
    [m EXCEPT !.st = start_subroutine(@),
              !.subroutine_type = keyword(Tok(m)),
              !.label_counter = 0]

\* EnterSubroutine with the kind of the first subroutine kept for the
\* later ones.
EnterSubroutine_first_kind(m) ==
    [m EXCEPT !.st = start_subroutine(@),
              !.subroutine_type =
                    IF @ = "None" THEN keyword(Tok(m)) ELSE @]

\* EnterSubroutine with a new table for every subroutine.
EnterSubroutine_new_table(m) ==
    [m EXCEPT !.st = NewSymbolTable,
              !.subroutine_type = keyword(Tok(m))]

\* The scope and the kind of the subroutine that begins; m is at its
\* keyword.
EnterSubroutine(m) ==
    [m EXCEPT !.st = start_subroutine(@),
              !.subroutine_type = keyword(Tok(m))]

\* ImplicitReceiver that defines nothing.
ImplicitReceiver_none(m) == m

\* For methods, the implicit this as the first argument.
ImplicitReceiver(m) ==
    IF m.subroutine_type = "METHOD"
    THEN [m EXCEPT !.st = define(@, kw_this, m.current_class, "ARG")]
    ELSE m

compile_subroutine_0 ==
    /\ At("compile_subroutine", 0)
    /\ Apply(
        IF ~IsKeyword(Cur, {"CONSTRUCTOR", "FUNCTION", "METHOD"})
        THEN Return(Cur, 0)
        ELSE
        LET m1 == Adv(EnterSubroutine(Cur))
            t == IF IsKeyword(m1, {"VOID"})
                 THEN [ok |-> TRUE, type |-> kw_void, m |-> Adv(m1)]
                 ELSE parse_type(m1)
            m2 == t.m
            m3 == Adv([m2 EXCEPT !.current_function_name = Tok(m2)])
            m4 == Adv(m3)
            m5 == ImplicitReceiver(m4)
        IN  IF ~t.ok THEN Raise(m2)
            ELSE IF ~IsIdentifier(m2) THEN Raise(m2)
            ELSE IF ~Is(m3, "(") THEN Raise(m3)
            ELSE Call(m5, "compile_parameter_list", 1, NoLocals))

compile_subroutine_1 ==
    /\ At("compile_subroutine", 1)
    /\ Apply(
        IF ~Is(Cur, ")") THEN Raise(Cur)
        ELSE Call(Adv(Cur), "compile_subroutine_body", 2, NoLocals))

compile_subroutine_2 ==
    /\ At("compile_subroutine", 2)
    /\ Apply(Return(Cur, 0))

(***************************************************************************)
(* compile_parameter_list                                                  *)
(***************************************************************************)
\* type varName: [ok, m]
Parameter(m) ==
    LET t == parse_type(m)
    IN  IF ~t.ok THEN [ok |-> FALSE, m |-> t.m]
        ELSE IF ~IsIdentifier(t.m) THEN [ok |-> FALSE, m |-> t.m]
        ELSE [ok |-> TRUE,
              m |-> Adv([t.m EXCEPT !.st = define(@, Tok(t.m), t.type, "ARG")])]

compile_parameter_list_0 ==
    /\ At("compile_parameter_list", 0)
    /\ Apply(
        IF Is(Cur, ")") THEN Return(Cur, 0)
        ELSE LET p == Parameter(Cur)
             IN  IF ~p.ok THEN Raise(p.m) ELSE Goto(p.m, 1, NoLocals))

\* while ','
compile_parameter_list_1 ==
    /\ At("compile_parameter_list", 1)
    /\ Apply(
        IF Is(Cur, ",")
        THEN LET p == Parameter(Adv(Cur))
             IN  IF ~p.ok THEN Raise(p.m) ELSE Goto(p.m, 1, NoLocals)
        ELSE Return(Cur, 0))

(***************************************************************************)
(* compile_var_dec                                                         *)
(***************************************************************************)
compile_var_dec_0 ==
    /\ At("compile_var_dec", 0)
    /\ Apply(
        IF ~IsKeyword(Cur, {"VAR"}) THEN Return(Cur, 0)
        ELSE LET t == parse_type(Adv(Cur))
             IN  IF ~t.ok THEN Raise(t.m)
                 ELSE Goto(t.m, 1, [var_type |-> t.type]))

compile_var_dec_1 ==
    /\ At("compile_var_dec", 1)
    /\ Apply(
        IF ~IsIdentifier(Cur) THEN Raise(Cur)
        ELSE LET m1 == Adv([Cur EXCEPT
                            !.st = define(@, Tok(Cur), L.var_type, "VAR")])
             IN  IF Is(m1, ",") THEN Goto(Adv(m1), 1, L)
                 ELSE IF ~Is(m1, ";") THEN Raise(m1)
                 ELSE Return(Adv(m1), 0))

(***************************************************************************)
(* compile_subroutine_body                                                 *)
(***************************************************************************)
\* f"{a}.{b}"
Dotted(a, b) == a \o Ch(".") \o b

compile_subroutine_body_0 ==
    /\ At("compile_subroutine_body", 0)
    /\ Apply(
        IF ~Is(Cur, "{") THEN Raise(Cur)
        ELSE Goto(Adv(Cur), 1, NoLocals))

Memory_alloc == <<"M", "e", "m", "o", "r", "y", ".", "a", "l", "l", "o", "c">>

\* ConstructorEntry with the statics counted into the size of the object.
ConstructorEntry_class_vars(m) ==
    LET n_fields == var_count(m.st, "FIELD") + var_count(m.st, "STATIC")
    IN  write_pop(
            write_call(write_push(m.out, "CONST", n_fields), Memory_alloc, 1),
            "POINTER", 0)

\* The object a constructor allocates.
ConstructorEntry(m) ==
    LET n_fields == var_count(m.st, "FIELD")
    IN  write_pop(
            write_call(write_push(m.out, "CONST", n_fields), Memory_alloc, 1),
            "POINTER", 0)

\* MethodEntry with the receiver put into the other pointer.
MethodEntry_that(m) == write_pop(write_push(m.out, "ARG", 0), "POINTER", 1)

\* The receiver a method binds.
MethodEntry(m) == write_pop(write_push(m.out, "ARG", 0), "POINTER", 0)

\* SubroutineEntry with the function named by the subroutine alone, the
\* class left out.
SubroutineEntry_unqualified(m) ==
    LET n_locals == var_count(m.st, "VAR")
        m1 == [m EXCEPT
               !.out = write_function(@, m.current_function_name, n_locals)]
    IN  IF m1.subroutine_type = "CONSTRUCTOR"
        THEN [m1 EXCEPT !.out = ConstructorEntry(m1)]
        ELSE IF m1.subroutine_type = "METHOD"
        THEN [m1 EXCEPT !.out = MethodEntry(m1)]
        ELSE m1

\* SubroutineEntry with the arguments counted for the locals.
SubroutineEntry_arg_count(m) ==
    LET n_locals == var_count(m.st, "ARG")
        function_name == Dotted(m.current_class, m.current_function_name)
        m1 == [m EXCEPT !.out = write_function(@, function_name, n_locals)]
    IN  IF m1.subroutine_type = "CONSTRUCTOR"
        THEN [m1 EXCEPT !.out = ConstructorEntry(m1)]
        ELSE IF m1.subroutine_type = "METHOD"
        THEN [m1 EXCEPT !.out = MethodEntry(m1)]
        ELSE m1

\* What follows the var declarations: the function instruction and the
\* entry code of a constructor or a method.
SubroutineEntry(m) ==
    LET n_locals == var_count(m.st, "VAR")
        function_name == Dotted(m.current_class, m.current_function_name)
        m1 == [m EXCEPT !.out = write_function(@, function_name, n_locals)]
    IN  IF m1.subroutine_type = "CONSTRUCTOR"
        THEN [m1 EXCEPT !.out = ConstructorEntry(m1)]
        ELSE IF m1.subroutine_type = "METHOD"
        THEN [m1 EXCEPT !.out = MethodEntry(m1)]
        ELSE m1

\* while varDec, then the function declaration and the statements
compile_subroutine_body_1 ==
    /\ At("compile_subroutine_body", 1)
    /\ Apply(
        IF IsKeyword(Cur, {"VAR"})
        THEN Call(Cur, "compile_var_dec", 1, NoLocals)
        ELSE Call(SubroutineEntry(Cur), "compile_statements", 2, NoLocals))

compile_subroutine_body_2 ==
    /\ At("compile_subroutine_body", 2)
    /\ Apply(
        IF ~Is(Cur, "}") THEN Raise(Cur)
        ELSE Return(Adv(Cur), 0))

(***************************************************************************)
(* compile_statements                                                      *)
(***************************************************************************)
compile_statements_0 ==
    /\ At("compile_statements", 0)
    /\ Apply(
        IF IsKeyword(Cur, {"LET", "IF", "WHILE", "DO", "RETURN"})
        THEN LET k == keyword(Tok(Cur))
             IN  Call(Cur,
                      CASE k = "LET" -> "compile_let"
                        [] k = "IF" -> "compile_if"
                        [] k = "WHILE" -> "compile_while"
                        [] k = "DO" -> "compile_do"
                        [] k = "RETURN" -> "compile_return",
                      0, NoLocals)
        ELSE Return(Cur, 0))

(***************************************************************************)
(* Subroutine calls, as compile_do and compile_term resolve them.  m is at *)
(* the token after the leading identifier first_identifier.                *)
(* The result is [ok, m, function_name, n_args], m at the token after the  *)
(* '(' when ok.                                                            *)
(***************************************************************************)
CallFailed(m) == [ok |-> FALSE, m |-> m, function_name |-> None, n_args |-> 0]

\* The '(' that opens the argument list.
CallOpen(m, function_name, n_args) ==
    IF ~Is(m, "(") THEN CallFailed(m)
    ELSE [ok |-> TRUE, m |-> Adv(m),
          function_name |-> function_name, n_args |-> n_args]

\* DottedCall with the function named by the leading name also when that
\* is a variable.
DottedCall_by_name(m, first_identifier) ==
    LET m1 == Adv(m)
        subroutine_name == Tok(m1)
        m2 == Adv(m1)
        var_kind == kind_of(m2.st, first_identifier)
        var_index == index_of(m2.st, first_identifier)
    IN  IF ~IsIdentifier(m1) THEN CallFailed(m1)
        ELSE IF var_kind # Unresolved
        THEN CallOpen([m2 EXCEPT !.out = write_push(@, var_kind, var_index)],
                      Dotted(first_identifier, subroutine_name), 1)
        ELSE CallOpen(m2, Dotted(first_identifier, subroutine_name), 0)

\* DottedCall with a call on a class given the current object as receiver.
DottedCall_on_this(m, first_identifier) ==
    LET m1 == Adv(m)
        subroutine_name == Tok(m1)
        m2 == Adv(m1)
        var_kind == kind_of(m2.st, first_identifier)
        var_index == index_of(m2.st, first_identifier)
        var_type == type_of(m2.st, first_identifier)
    IN  IF ~IsIdentifier(m1) THEN CallFailed(m1)
        ELSE IF var_kind # Unresolved
        THEN CallOpen([m2 EXCEPT !.out = write_push(@, var_kind, var_index)],
                      Dotted(var_type, subroutine_name), 1)
        ELSE CallOpen([m2 EXCEPT !.out = write_push(@, "POINTER", 0)],
                      Dotted(first_identifier, subroutine_name), 1)

\* className.subroutineName or obj.subroutineName; m is at the '.'.
DottedCall(m, first_identifier) ==
    LET m1 == Adv(m)
        subroutine_name == Tok(m1)
        m2 == Adv(m1)
        var_kind == kind_of(m2.st, first_identifier)
        var_index == index_of(m2.st, first_identifier)
        var_type == type_of(m2.st, first_identifier)
    IN  IF ~IsIdentifier(m1) THEN CallFailed(m1)
        ELSE IF var_kind # Unresolved
        THEN CallOpen([m2 EXCEPT !.out = write_push(@, var_kind, var_index)],
                      Dotted(var_type, subroutine_name), 1)
        ELSE CallOpen(m2, Dotted(first_identifier, subroutine_name), 0)

\* BareCall without the check that the name is no variable.
BareCall_unchecked(m, first_identifier) ==
    CallOpen([m EXCEPT !.out = write_push(@, "POINTER", 0)],
             Dotted(m.current_class, first_identifier), 1)

\* subroutineName alone: a method of the current class, called on this.
BareCall(m, first_identifier) ==
    LET subroutine_name == first_identifier
        var_kind == kind_of(m.st, subroutine_name)
    IN  IF var_kind # Unresolved THEN CallFailed(m)
        ELSE CallOpen([m EXCEPT !.out = write_push(@, "POINTER", 0)],
                      Dotted(m.current_class, subroutine_name), 1)

(***************************************************************************)
(* compile_do                                                              *)
(***************************************************************************)
compile_do_0 ==
    /\ At("compile_do", 0)
    /\ Apply(
        IF ~IsKeyword(Cur, {"DO"}) THEN Return(Cur, 0)
        ELSE
        LET m1 == Adv(Cur)
            first_identifier == Tok(m1)
            m2 == Adv(m1)
            c == IF Is(m2, ".") THEN DottedCall(m2, first_identifier)
                 ELSE BareCall(m2, first_identifier)
        IN  IF ~IsIdentifier(m1) THEN Raise(m1)
            ELSE IF ~c.ok THEN Raise(c.m)
            ELSE Call(c.m, "compile_expression_list", 1,
                      [function_name |-> c.function_name, n_args |-> c.n_args]))

compile_do_1 ==
    /\ At("compile_do", 1)
    /\ Apply(
        LET expression_count == retval
            n_args == L.n_args + expression_count
            m1 == [Cur EXCEPT
                   !.out = write_pop(write_call(@, L.function_name, n_args),
                                     "TEMP", 0)]
            m2 == Adv(m1)
        IN  IF ~Is(m1, ")") THEN Raise(m1)
            ELSE IF ~Is(m2, ";") THEN Raise(m2)
            ELSE Return(Adv(m2), 0))

(***************************************************************************)
(* compile_let                                                             *)
(***************************************************************************)
\* '=' expression
LetValue(m, l) ==
    IF ~Is(m, "=") THEN Raise(m)
    ELSE Call(Adv(m), "compile_expression", 2, l)

compile_let_0 ==
    /\ At("compile_let", 0)
    /\ Apply(
        IF ~IsKeyword(Cur, {"LET"}) THEN Return(Cur, 0)
        ELSE
        LET m1 == Adv(Cur)
            var_name == Tok(m1)
            var_kind == kind_of(m1.st, var_name)
            var_index == index_of(m1.st, var_name)
            m2 == Adv(m1)
        IN  IF ~IsIdentifier(m1) THEN Raise(m1)
            ELSE IF Is(m2, "[")
            THEN Call(Adv([m2 EXCEPT !.out = write_push(@, var_kind, var_index)]),
                      "compile_expression", 1,
                      [var_kind |-> var_kind, var_index |-> var_index,
                       is_array |-> TRUE])
            ELSE LetValue(m2, [var_kind |-> var_kind, var_index |-> var_index,
                               is_array |-> FALSE]))

\* after the index expression
compile_let_1 ==
    /\ At("compile_let", 1)
    /\ Apply(
        IF ~Is(Cur, "]") THEN Raise(Cur)
        ELSE LetValue([Adv(Cur) EXCEPT !.out = write_arithmetic(@, "+")], L))

\* ArrayStore without the detour of the value through TEMP 0.
ArrayStore_direct(o) == write_pop(write_pop(o, "POINTER", 1), "THAT", 0)

\* The store of an indexed assignment: the value is on top, the address
\* below it.
ArrayStore(o) ==
    write_pop(write_push(write_pop(write_pop(o, "TEMP", 0), "POINTER", 1),
                         "TEMP", 0),
              "THAT", 0)

\* after the value expression
compile_let_2 ==
    /\ At("compile_let", 2)
    /\ Apply(
        LET m1 == IF L.is_array
                  THEN [Cur EXCEPT !.out = ArrayStore(@)]
                  ELSE [Cur EXCEPT !.out = write_pop(@, L.var_kind, L.var_index)]
        IN  IF ~Is(m1, ";") THEN Raise(m1)
            ELSE Return(Adv(m1), 0))

(***************************************************************************)
(* compile_while                                                           *)
(***************************************************************************)
WHILE_EXP == <<"W", "H", "I", "L", "E", "_", "E", "X", "P">>
WHILE_END == <<"W", "H", "I", "L", "E", "_", "E", "N", "D">>
IF_ELSE == <<"I", "F", "_", "E", "L", "S", "E">>
IF_END == <<"I", "F", "_", "E", "N", "D">>

\* f"{prefix}{self.label_counter}"
Label(prefix, n) == prefix \o str(n)

WhileEntry_shared(m) ==
    [m EXCEPT !.out = write_label(@, Label(WHILE_EXP, m.label_counter))]

\* self.label_counter += 1; write_label(label_start)
WhileEntry(m) ==
    [m EXCEPT !.label_counter = @ + 1,
              !.out = write_label(@, Label(WHILE_EXP, m.label_counter))]

compile_while_0 ==
    /\ At("compile_while", 0)
    /\ Apply(
        IF ~IsKeyword(Cur, {"WHILE"}) THEN Return(Cur, 0)
        ELSE
        LET m1 == Adv(Cur)
            label_start == Label(WHILE_EXP, m1.label_counter)
            label_end == Label(WHILE_END, m1.label_counter)
            m2 == WhileEntry(m1)
        IN  IF ~Is(m2, "(") THEN Raise(m2)
            ELSE Call(Adv(m2), "compile_expression", 1,
                      [label_start |-> label_start, label_end |-> label_end]))

\* after the condition
compile_while_1 ==
    /\ At("compile_while", 1)
    /\ Apply(
        LET m1 == [Cur EXCEPT
                   !.out = write_if(write_arithmetic(@, "NOT"), L.label_end)]
            m2 == Adv(m1)
        IN  IF ~Is(m1, ")") THEN Raise(m1)
            ELSE IF ~Is(m2, "{") THEN Raise(m2)
            ELSE Call(Adv(m2), "compile_statements", 2, L))

\* after the body
compile_while_2 ==
    /\ At("compile_while", 2)
    /\ Apply(
        LET m1 == [Cur EXCEPT !.out = write_goto(@, L.label_start)]
        IN  IF ~Is(m1, "}") THEN Raise(m1)
            ELSE Return([Adv(m1) EXCEPT !.out = write_label(@, L.label_end)], 0))

(***************************************************************************)
(* compile_return                                                          *)
(***************************************************************************)
\* write_return, then ';'
ReturnEnd(m) ==
    LET m1 == [m EXCEPT !.out = write_return(@)]
    IN  IF ~Is(m1, ";") THEN Raise(m1)
        ELSE Return(Adv(m1), 0)

compile_return_0 ==
    /\ At("compile_return", 0)
    /\ Apply(
        IF ~IsKeyword(Cur, {"RETURN"}) THEN Return(Cur, 0)
        ELSE
        LET m1 == Adv(Cur)
        IN  IF ~Is(m1, ";")
            THEN Call(m1, "compile_expression", 1, NoLocals)
            ELSE IF m1.subroutine_type = "CONSTRUCTOR"
            THEN ReturnEnd([m1 EXCEPT !.out = write_push(@, "POINTER", 0)])
            ELSE ReturnEnd([m1 EXCEPT !.out = write_push(@, "CONST", 0)]))

\* after the returned expression
compile_return_1 ==
    /\ At("compile_return", 1)
    /\ Apply(ReturnEnd(Cur))

(***************************************************************************)
(* compile_if                                                              *)
(***************************************************************************)
compile_if_0 ==
    /\ At("compile_if", 0)
    /\ Apply(
        IF ~IsKeyword(Cur, {"IF"}) THEN Return(Cur, 0)
        ELSE
        LET m1 == Adv(Cur)
            label_else == Label(IF_ELSE, m1.label_counter)
            label_end == Label(IF_END, m1.label_counter)
            m2 == [m1 EXCEPT !.label_counter = @ + 1]
        IN  IF ~Is(m2, "(") THEN Raise(m2)
            ELSE Call(Adv(m2), "compile_expression", 1,
                      [label_else |-> label_else, label_end |-> label_end]))

\* after the condition
compile_if_1 ==
    /\ At("compile_if", 1)
    /\ Apply(
        LET m1 == Adv(Cur)
            m2 == [m1 EXCEPT
                   !.out = write_if(write_arithmetic(@, "NOT"), L.label_else)]
        IN  IF ~Is(Cur, ")") THEN Raise(Cur)
            ELSE IF ~Is(m2, "{") THEN Raise(m2)
            ELSE Call(Adv(m2), "compile_statements", 2, L))

\* ElseEntry with the else label put before the jump over the else branch.
ElseEntry_early_label(o, l) ==
    write_goto(write_label(o, l.label_else), l.label_end)

\* What stands between the true branch and the else branch.
ElseEntry(o, l) == write_label(write_goto(o, l.label_end), l.label_else)

NoElseEnd_one_label(o, l) == write_label(o, l.label_end)

\* The end of an if statement without else: both labels.
NoElseEnd(o, l) == write_label(write_label(o, l.label_else), l.label_end)

\* after the statements of the true branch
compile_if_2 ==
    /\ At("compile_if", 2)
    /\ Apply(
        LET m1 == Adv(Cur)
            has_else == IsKeyword(m1, {"ELSE"})
            m2 == [m1 EXCEPT !.out = ElseEntry(@, L)]
            m3 == Adv(m2)
        IN  IF ~Is(Cur, "}") THEN Raise(Cur)
            ELSE IF has_else
            THEN IF ~Is(m3, "{") THEN Raise(m3)
                 ELSE Call(Adv(m3), "compile_statements", 3, L)
            ELSE Return([m1 EXCEPT !.out = NoElseEnd(@, L)], 0))

\* after the statements of the else branch
compile_if_3 ==
    /\ At("compile_if", 3)
    /\ Apply(
        IF ~Is(Cur, "}") THEN Raise(Cur)
        ELSE Return([Adv(Cur) EXCEPT !.out = write_label(@, L.label_end)], 0))

(***************************************************************************)
(* compile_expression                                                      *)
(***************************************************************************)
BinaryOps == {"+", "-", "*", "/", "&", "|", "<", ">", "="}

compile_expression_0 ==
    /\ At("compile_expression", 0)
    /\ Apply(
        IF Tok(Cur) \in {Ch(";"), Ch("]"), Ch(")"), Ch(",")}
        THEN Return(Cur, 0)
        ELSE Call(Cur, "compile_term", 1, NoLocals))

\* compile_expression_1 with the operator written as soon as it is read.
compile_expression_1_eager ==
    /\ At("compile_expression", 1)
    /\ Apply(
        IF token_type(Tok(Cur)) = "SYMBOL" /\ symbol(Tok(Cur)) \in BinaryOps
        THEN Call(Adv([Cur EXCEPT
                       !.out = write_arithmetic(@, symbol(Tok(Cur)))]),
                  "compile_term", 2, [symbol |-> symbol(Tok(Cur))])
        ELSE Return(Cur, 0))

\* while op
compile_expression_1 ==
    /\ At("compile_expression", 1)
    /\ Apply(
        IF token_type(Tok(Cur)) = "SYMBOL" /\ symbol(Tok(Cur)) \in BinaryOps
        THEN Call(Adv(Cur), "compile_term", 2, [symbol |-> symbol(Tok(Cur))])
        ELSE Return(Cur, 0))

\* after the term that follows an op
compile_expression_2 ==
    /\ At("compile_expression", 2)
    /\ Apply(Goto([Cur EXCEPT !.out = write_arithmetic(@, L.symbol)],
                  1, NoLocals))

(***************************************************************************)
(* compile_term                                                            *)
(***************************************************************************)
\* The characters chr(32) .. chr(95), in order.
Printable ==
    <<
      " ", "!", "\"", "#", "$", "%", "&", "'", "(", ")", "*", "+",
      ",", "-", ".", "/", "0", "1", "2", "3", "4", "5", "6", "7",
      "8", "9", ":", ";", "<", "=", ">", "?", "@", "A", "B", "C",
      "D", "E", "F", "G", "H", "I", "J", "K", "L", "M", "N", "O",
      "P", "Q", "R", "S", "T", "U", "V", "W", "X", "Y", "Z", "[",
      "\\", "]", "^", "_"
    >>

\* The characters chr(97) .. chr(126), in order.
PrintableLower ==
    <<
      "a", "b", "c", "d", "e", "f", "g", "h", "i", "j", "k", "l",
      "m", "n", "o", "p", "q", "r", "s", "t", "u", "v", "w", "x",
      "y", "z", "{", "|", "}", "~"
    >>

\* ord(char) of a printable character
ord(c) ==
    IF \E i \in 1..Len(Printable) : Printable[i] = c
    THEN 31 + CHOOSE i \in 1..Len(Printable) : Printable[i] = c
    ELSE 96 + CHOOSE i \in 1..Len(PrintableLower) : PrintableLower[i] = c

String_new == <<"S", "t", "r", "i", "n", "g", ".", "n", "e", "w">>
String_appendChar ==
    <<"S", "t", "r", "i", "n", "g", ".", "a", "p", "p", "e", "n", "d", "C",
      "h", "a", "r">>

\* for char in string_val: push its code and append it
\* AppendChars from the last character to the first.
RECURSIVE AppendChars_backwards(_, _)
AppendChars_backwards(o, chars) ==
    IF chars = <<>> THEN o
    ELSE write_call(
            write_push(AppendChars_backwards(o, Tail(chars)),
                       "CONST", ord(Head(chars))),
            String_appendChar, 2)

\* for char in string_val
RECURSIVE AppendChars(_, _)
AppendChars(o, chars) ==
    IF chars = <<>> THEN o
    ELSE AppendChars(
            write_call(write_push(o, "CONST", ord(Head(chars))),
                       String_appendChar, 2),
            Tail(chars))

StringConstant(m) ==
    LET value == string_val(Tok(m))
        string_length == Len(value)
    IN  [m EXCEPT !.out = AppendChars(
            write_call(write_push(@, "CONST", string_length), String_new, 1),
            value)]

\* true, false, null, this: [ok, m]
KeywordConstant(m) ==
    LET kw == lower(keyword(Tok(m)))
    IN  IF kw = kw_true
        THEN [ok |-> TRUE,
              m |-> [m EXCEPT !.out = write_arithmetic(
                                  write_push(@, "CONST", 0), "NOT")]]
        ELSE IF kw = kw_false \/ kw = kw_null
        THEN [ok |-> TRUE, m |-> [m EXCEPT !.out = write_push(@, "CONST", 0)]]
        ELSE IF kw = kw_this
        THEN [ok |-> TRUE, m |-> [m EXCEPT !.out = write_push(@, "POINTER", 0)]]
        ELSE [ok |-> FALSE, m |-> m]

\* varName, varName '[' expression ']' or subroutineCall; m is at the
\* identifier.
IdentifierTerm(m) ==
    LET first_identifier == Tok(m)
        m1 == Adv(m)
        var_kind == kind_of(m1.st, first_identifier)
        var_index == index_of(m1.st, first_identifier)
        c == IF Is(m1, ".") THEN DottedCall(m1, first_identifier)
             ELSE BareCall(m1, first_identifier)
    IN  IF Is(m1, "[")
        THEN Call(Adv([m1 EXCEPT !.out = write_push(@, var_kind, var_index)]),
                  "compile_expression", 3, NoLocals)
        ELSE IF Is(m1, ".") \/ Is(m1, "(")
        THEN IF ~c.ok THEN Raise(c.m)
             ELSE Call(c.m, "compile_expression_list", 4,
                       [function_name |-> c.function_name, n_args |-> c.n_args])
        ELSE IF var_kind = Unresolved THEN Raise(m1)
        ELSE Return([m1 EXCEPT !.out = write_push(@, var_kind, var_index)], 0)

compile_term_0 ==
    /\ At("compile_term", 0)
    /\ Apply(
        LET type == token_type(Tok(Cur))
            k == KeywordConstant(Cur)
        IN  IF type = "SYMBOL" /\ symbol(Tok(Cur)) \in {"-", "~"}
            THEN Call(Adv(Cur), "compile_term", 1, [symbol |-> symbol(Tok(Cur))])
            ELSE IF type = "SYMBOL" /\ symbol(Tok(Cur)) = "("
            THEN Call(Adv(Cur), "compile_expression", 2, NoLocals)
            ELSE IF type = "INT_CONST"
            THEN Return(Adv([Cur EXCEPT
                             !.out = write_push(@, "CONST", int_val(Tok(Cur)))]),
                        0)
            ELSE IF type = "STRING_CONST"
            THEN Return(Adv(StringConstant(Cur)), 0)
            ELSE IF type = "KEYWORD"
            THEN IF ~k.ok THEN Raise(k.m) ELSE Return(Adv(k.m), 0)
            ELSE IF type = "IDENTIFIER"
            THEN IdentifierTerm(Cur)
            ELSE Raise(Cur))

\* after the term of a unary operator
compile_term_1 ==
    /\ At("compile_term", 1)
    /\ Apply(
        IF L.symbol = "-"
        THEN Return([Cur EXCEPT !.out = write_arithmetic(@, "NEG")], 0)
        ELSE IF L.symbol = "~"
        THEN Return([Cur EXCEPT !.out = write_arithmetic(@, "NOT")], 0)
        ELSE Return(Cur, 0))

\* after the expression in parentheses
compile_term_2 ==
    /\ At("compile_term", 2)
    /\ Apply(
        IF ~Is(Cur, ")") THEN Raise(Cur)
        ELSE Return(Adv(Cur), 0))

ArrayLoad_direct(o) == write_push(write_arithmetic(o, "+"), "THAT", 0)

\* The load of an indexed read: base and index are on the stack.
ArrayLoad(o) ==
    write_push(write_pop(write_arithmetic(o, "+"), "POINTER", 1), "THAT", 0)

\* after the index expression
compile_term_3 ==
    /\ At("compile_term", 3)
    /\ Apply(
        IF ~Is(Cur, "]") THEN Raise(Cur)
        ELSE Return([Adv(Cur) EXCEPT !.out = ArrayLoad(@)], 0))

\* after the argument list of a call
compile_term_4 ==
    /\ At("compile_term", 4)
    /\ Apply(
        LET expression_count == retval
            n_args == L.n_args + expression_count
            m1 == [Cur EXCEPT !.out = write_call(@, L.function_name, n_args)]
        IN  IF ~Is(m1, ")") THEN Raise(m1)
            ELSE Return(Adv(m1), 0))

(***************************************************************************)
(* compile_expression_list                                                 *)
(***************************************************************************)
compile_expression_list_0 ==
    /\ At("compile_expression_list", 0)
    /\ Apply(
        IF Is(Cur, ")") THEN Return(Cur, 0)
        ELSE Call(Cur, "compile_expression", 1, [expression_count |-> 0]))

\* expression_count += 1.  The count is kept up to MaxCount, which no
\* argument list of a unit reaches.
MaxCount == 6

Counted(n) == IF n < MaxCount THEN n + 1 ELSE n

\* after an expression: count it, then while ','
compile_expression_list_1 ==
    /\ At("compile_expression_list", 1)
    /\ Apply(
        LET expression_count == Counted(L.expression_count)
        IN  IF Is(Cur, ",")
            THEN Call(Adv(Cur), "compile_expression", 1,
                      [expression_count |-> expression_count])
            ELSE Return(Cur, expression_count))

(***************************************************************************)
(* Compilation units.  A unit is a class of the Jack grammar given as a    *)
(* tree; TokensOf writes it out as the token sequence the tokenizer holds  *)
(* for its text, production by production.                                 *)
(*   unit:  [name, vars, subs]                                             *)
(*   vars:  sequence of [kind, type, names]                                *)
(*   sub:   [kind, type, name, params, locals, body]                       *)
(*   statement: [s |-> "let" | "if" | "while" | "do" | "return", ...]     *)
(*   expression: [terms, ops], Len(ops) = Len(terms) - 1                   *)
(*   term:  [t |-> "int" | "str" | "kw" | "var" | "index" | "call" |      *)
(*               "paren" | "unary", ...]                                   *)
(*   call:  [recv, name, args], recv <<>> or <<identifier>>                *)
(***************************************************************************)
RECURSIVE Flat(_)
Flat(seqs) == IF seqs = <<>> THEN <<>> ELSE Head(seqs) \o Flat(Tail(seqs))

\* x (',' x)*
RECURSIVE CommaList(_)
CommaList(seqs) ==
    IF seqs = <<>> THEN <<>>
    ELSE IF Len(seqs) = 1 THEN seqs[1]
    ELSE seqs[1] \o <<Ch(",")>> \o CommaList(Tail(seqs))

Names(names) == CommaList([i \in 1..Len(names) |-> <<names[i]>>])

RECURSIVE ExpressionTokens(_)
RECURSIVE TermTokens(_)
RECURSIVE StatementsTokens(_)

\* subroutineCall
CallTokens(c) ==
    (IF c.recv = <<>> THEN <<>> ELSE <<c.recv[1], Ch(".")>>)
    \o <<c.name, Ch("(")>>
    \o CommaList([i \in 1..Len(c.args) |-> ExpressionTokens(c.args[i])])
    \o <<Ch(")")>>

\* term
TermTokens(t) ==
    CASE t.t \in {"int", "str", "kw"} -> <<t.tok>>
      [] t.t = "var" -> <<t.name>>
      [] t.t = "index" ->
            <<t.name, Ch("[")>> \o ExpressionTokens(t.index) \o <<Ch("]")>>
      [] t.t = "call" -> CallTokens(t.call)
      [] t.t = "paren" -> <<Ch("(")>> \o ExpressionTokens(t.expr) \o <<Ch(")")>>
      [] t.t = "unary" -> <<Ch(t.op)>> \o TermTokens(t.term)

\* expression: term (op term)*
ExpressionTokens(e) ==
    Flat([i \in 1..Len(e.terms) |->
            (IF i = 1 THEN <<>> ELSE <<Ch(e.ops[i - 1])>>)
            \o TermTokens(e.terms[i])])

\* statement
StatementTokens(s) ==
    CASE s.s = "let" ->
            <<kw_let, s.name>>
            \o (IF s.index = <<>> THEN <<>>
                ELSE <<Ch("[")>> \o ExpressionTokens(s.index[1]) \o <<Ch("]")>>)
            \o <<Ch("=")>> \o ExpressionTokens(s.value) \o <<Ch(";")>>
      [] s.s = "if" ->
            <<kw_if, Ch("(")>> \o ExpressionTokens(s.cond)
            \o <<Ch(")"), Ch("{")>> \o StatementsTokens(s.then) \o <<Ch("}")>>
            \o (IF s.orelse = <<>> THEN <<>>
                ELSE <<kw_else, Ch("{")>> \o StatementsTokens(s.orelse[1])
                     \o <<Ch("}")>>)
      [] s.s = "while" ->
            <<kw_while, Ch("(")>> \o ExpressionTokens(s.cond)
            \o <<Ch(")"), Ch("{")>> \o StatementsTokens(s.body) \o <<Ch("}")>>
      [] s.s = "do" -> <<kw_do>> \o CallTokens(s.call) \o <<Ch(";")>>
      [] s.s = "return" ->
            <<kw_return>>
            \o (IF s.value = <<>> THEN <<>> ELSE ExpressionTokens(s.value[1]))
            \o <<Ch(";")>>

\* statements: statement*
StatementsTokens(ss) ==
    Flat([i \in 1..Len(ss) |-> StatementTokens(ss[i])])

\* classVarDec and varDec
VarDecTokens(d) == <<d.kind, d.type>> \o Names(d.names) \o <<Ch(";")>>

\* subroutineDec
SubroutineTokens(f) ==
    <<f.kind, f.type, f.name, Ch("(")>>
    \o CommaList([i \in 1..Len(f.params) |->
                    <<f.params[i].type, f.params[i].name>>])
    \o <<Ch(")"), Ch("{")>>
    \o Flat([i \in 1..Len(f.locals) |-> VarDecTokens(f.locals[i])])
    \o StatementsTokens(f.body)
    \o <<Ch("}")>>

\* class
TokensOf(u) ==
    <<kw_class, u.name, Ch("{")>>
    \o Flat([i \in 1..Len(u.vars) |-> VarDecTokens(u.vars[i])])
    \o Flat([i \in 1..Len(u.subs) |-> SubroutineTokens(u.subs[i])])
    \o <<Ch("}")>>

(***************************************************************************)
(* The units that are compiled.  Every choice is a window of a menu: the   *)
(* bounds say how long a window may be.                                    *)
(***************************************************************************)
MaxFields == 2      \* int fields declared besides the object field
MaxSubs == 2        \* subroutines of a class
MaxTerms == 3       \* terms of an expression
MaxArgs == 2        \* arguments of a call
MaxNest == 2        \* nesting depth of if and while statements

\* The k items of a menu from item r on, going round.
Window(menu, r, k) == [j \in 1..k |-> menu[((r + j - 2) % Len(menu)) + 1]]

\* Terms and expressions.
IntT(tok) == [t |-> "int", tok |-> tok]
StrT(tok) == [t |-> "str", tok |-> tok]
KwT(tok) == [t |-> "kw", tok |-> tok]
VarT(name) == [t |-> "var", name |-> Ch(name)]
IndexT(name, e) == [t |-> "index", name |-> Ch(name), index |-> e]
CallT(c) == [t |-> "call", call |-> c]
ParenT(e) == [t |-> "paren", expr |-> e]
UnaryT(op, term) == [t |-> "unary", op |-> op, term |-> term]
Expr(terms, ops) == [terms |-> terms, ops |-> ops]
E1(term) == Expr(<<term>>, <<>>)
MethodCall(recv, name, args) ==
    [recv |-> <<Ch(recv)>>, name |-> Ch(name), args |-> args]
BareCallOf(name, args) == [recv |-> <<>>, name |-> Ch(name), args |-> args]

\* Statements.
Let(name, value) ==
    [s |-> "let", name |-> Ch(name), index |-> <<>>, value |-> value]
LetIndex(name, index, value) ==
    [s |-> "let", name |-> Ch(name), index |-> <<index>>, value |-> value]
If(cond, then) == [s |-> "if", cond |-> cond, then |-> then, orelse |-> <<>>]
IfElse(cond, then, orelse) ==
    [s |-> "if", cond |-> cond, then |-> then, orelse |-> <<orelse>>]
While(cond, body) == [s |-> "while", cond |-> cond, body |-> body]
Do(c) == [s |-> "do", call |-> c]
ReturnVoid == [s |-> "return", value |-> <<>>]
ReturnOf(e) == [s |-> "return", value |-> <<e>>]

\* The declarations the statements refer to:
\*   field B o; field int x, y; static A s;   (class C)
\*   parameter B p; var Array a, b; var int i, j; var A q;
\* A, B and g are declared nowhere in C.
OpMenu == <<"+", "-", "*", "/", "&", "|", "<", ">", "=">>

TermMenu ==
    <<IntT(<<"7">>),
      VarT("i"),
      IndexT("a", E1(VarT("i"))),
      CallT(MethodCall("o", "m", <<E1(VarT("p"))>>)),
      ParenT(Expr(<<VarT("x"), IntT(<<"1">>)>>, <<"+">>)),
      UnaryT("-", VarT("p")),
      CallT(MethodCall("B", "f", <<>>)),
      KwT(kw_true),
      IndexT("a", E1(IndexT("b", E1(VarT("j"))))),
      StrT(<<"\"", "a", "b", "\"">>),
      VarT("s"),
      CallT(BareCallOf("g", <<E1(VarT("i"))>>)),
      UnaryT("~", KwT(kw_false)),
      KwT(kw_this),
      IntT(<<"3", "2", "7", "6", "7">>),
      KwT(kw_null),
      StrT(<<"\"", "\"">>)>>

\* term (op term)* of n terms, from item r of the menus on
Chain(r, n) == Expr(Window(TermMenu, r, n), Window(OpMenu, r, n - 1))

Expressions == {Chain(r, n) : r \in 1..Len(TermMenu), n \in 1..MaxTerms}

\* The arguments of a call: n expressions from item r on.
Args(r, n) == [j \in 1..n |-> Chain(r + 2 * (j - 1), 1 + ((r + j) % 2))]

\* A call on an object (a variable of each kind), on a class, on this.
Calls ==
    {[recv |-> recv, name |-> Ch("m"), args |-> Args(r, n)] :
        recv \in {<<Ch("o")>>, <<Ch("s")>>, <<Ch("p")>>, <<Ch("q")>>,
                  <<Ch("B")>>, <<>>},
        r \in {1, 2, 6}, n \in 0..MaxArgs}

\* A call of a name that is a variable: an error.
BadCalls == {BareCallOf(name, Args(1, n)) : name \in {"i", "x"}, n \in {0, 1}}

SimpleStatements ==
    {Let("i", e) : e \in Expressions}
    \cup {Let(name, Chain(2, 2)) : name \in {"x", "s", "p"}}
    \cup {LetIndex("a", Chain(r, 1 + (r % 2)), Chain(r + 2, 2)) :
            r \in 1..Len(TermMenu)}
    \cup {Do(c) : c \in Calls \cup BadCalls}
    \cup {Let("i", E1(CallT(c))) : c \in Calls \cup BadCalls}
    \cup {ReturnOf(Chain(r, 1)) : r \in {2, 14}}

\* Conditions and the statements at the bottom of a nest; they refer to
\* the declarations of the class only.
CondMenu ==
    <<E1(KwT(kw_false)),
      Expr(<<VarT("s"), IntT(<<"7">>)>>, <<"<">>),
      E1(UnaryT("~", ParenT(Expr(<<VarT("o"), VarT("s")>>, <<"=">>))))>>

CoreMenu ==
    <<<<Do(MethodCall("A", "f", <<>>))>>,
      <<Do(MethodCall("B", "g", <<>>))>>,
      <<Let("s", Expr(<<VarT("o"), IntT(<<"1">>)>>, <<"+">>)),
        Do(BareCallOf("g", <<>>))>>,
      <<>>,
      <<ReturnVoid>>>>

\* The statements nested d deep, number k of the shapes.
RECURSIVE Nest(_, _)
Nest(d, k) ==
    IF d = 0 THEN Window(CoreMenu, k, 1)[1]
    ELSE LET cond == Window(CondMenu, k, 1)[1]
         IN  CASE k % 4 = 0 -> <<IfElse(cond, Nest(d - 1, k + 1), Nest(d - 1, k + 2))>>
               [] k % 4 = 1 -> <<While(cond, Nest(d - 1, k + 1))>>
               [] k % 4 = 2 -> <<If(cond, Nest(d - 1, k + 1)),
                                 IfElse(cond, Nest(d - 1, k + 3), Nest(d - 1, k))>>
               [] k % 4 = 3 -> <<IfElse(cond, Nest(d - 1, k + 2), Nest(d - 1, k + 1)),
                                 While(cond, Nest(d - 1, k + 3))>>

NestShapes == 8

Nests == {Nest(d, k) : d \in 1..MaxNest, k \in 1..NestShapes}

\* The class-level declarations: the object field, n int fields, a static.
ClassVars(n) ==
    <<[kind |-> kw_field, type |-> Ch("B"), names |-> <<Ch("o")>>]>>
    \o (IF n = 0 THEN <<>>
        ELSE <<[kind |-> kw_field, type |-> kw_int,
                names |-> Window(<<Ch("x"), Ch("y"), Ch("z")>>, 1, n)]>>)
    \o <<[kind |-> kw_static, type |-> Ch("A"), names |-> <<Ch("s")>>]>>

Locals ==
    <<[kind |-> kw_var, type |-> <<"A", "r", "r", "a", "y">>,
       names |-> <<Ch("a"), Ch("b")>>],
      [kind |-> kw_var, type |-> kw_int, names |-> <<Ch("i"), Ch("j")>>],
      [kind |-> kw_var, type |-> Ch("A"), names |-> <<Ch("q")>>]>>

Sub(kind, type, name, params, locals, body) ==
    [kind |-> kind, type |-> type, name |-> name, params |-> params,
     locals |-> locals, body |-> body]

\* A unit that tries one statement list in a method.
StatementUnit(body) ==
    [name |-> Ch("C"),
     vars |-> ClassVars(1),
     subs |-> <<Sub(kw_method, kw_void, Ch("m"),
                    <<[type |-> Ch("B"), name |-> Ch("p")]>>,
                    Locals, body \o <<ReturnVoid>>)>>]

\* The subroutines of the units that try the declarations.
SubMenu ==
    <<Sub(kw_function, kw_void, Ch("f"), <<>>, <<>>,
          Nest(1, 1) \o <<ReturnVoid>>),
      Sub(kw_method, kw_int, Ch("m"),
          <<[type |-> kw_int, name |-> Ch("i")]>>, <<>>,
          Nest(1, 2) \o <<ReturnOf(E1(VarT("i")))>>),
      Sub(kw_constructor, Ch("C"), <<"n", "e", "w">>,
          <<[type |-> Ch("B"), name |-> Ch("p")]>>,
          <<[kind |-> kw_var, type |-> kw_int, names |-> <<Ch("i")>>]>>,
          <<Let("o", E1(VarT("p"))), ReturnOf(E1(KwT(kw_this)))>>),
      Sub(kw_method, kw_void, Ch("r"),
          <<[type |-> kw_int, name |-> Ch("i")],
            [type |-> kw_boolean, name |-> Ch("j")]>>,
          <<[kind |-> kw_var, type |-> Ch("B"), names |-> <<Ch("a"), Ch("b")>>],
            [kind |-> kw_var, type |-> kw_char, names |-> <<Ch("c")>>]>>,
          <<Do(MethodCall("a", "m", <<E1(VarT("j"))>>)), ReturnVoid>>),
      Sub(kw_function, kw_int, Ch("k"),
          <<[type |-> kw_int, name |-> Ch("c")],
            [type |-> Ch("B"), name |-> Ch("d")]>>,
          <<>>,
          <<ReturnOf(Expr(<<VarT("c"), VarT("x")>>, <<"+">>))>>),
      Sub(kw_constructor, Ch("C"), <<"m", "k">>, <<>>, <<>>,
          Nest(1, 0) \o <<ReturnVoid>>),
      Sub(kw_function, kw_boolean, Ch("h"),
          <<[type |-> <<"A", "r", "r", "a", "y">>, name |-> Ch("a")]>>,
          <<[kind |-> kw_var, type |-> kw_int, names |-> <<Ch("i")>>]>>,
          Nest(2, 3) \o <<ReturnOf(E1(IndexT("a", E1(VarT("i")))))>>)>>

DeclarationUnit(n, r, k) ==
    [name |-> Ch("C"), vars |-> ClassVars(n), subs |-> Window(SubMenu, r, k)]

\* A call on this, then a call of a name that is a variable.
CallThenBadCall ==
    {<<Do(BareCallOf("g", Args(r, n))), Do(c)>> :
        r \in {1, 2}, n \in 1..MaxArgs, c \in BadCalls}

\* Statements with longer string constants: "Hi */" and "x;y".
StringStatements ==
    {Let("i", E1(StrT(<<"\"", "H", "i", " ", "*", "/", "\"">>))),
     Do(MethodCall("B", "f",
                   <<E1(StrT(<<"\"", "x", ";", "y", "\"">>)),
                     E1(StrT(<<"\"", "\"">>)),
                     Expr(<<StrT(<<"\"", "H", "i", " ", "*", "/", "\"">>),
                            StrT(<<"\"", "a", "\"">>)>>, <<"+">>)>>))}

Units ==
    {StatementUnit(<<s>>) : s \in SimpleStatements}
    \cup {StatementUnit(<<s>>) : s \in StringStatements}
    \cup {StatementUnit(ss) : ss \in CallThenBadCall}
    \cup {StatementUnit(ss) : ss \in Nests}
    \cup {DeclarationUnit(n, r, k) :
            n \in 0..MaxFields, r \in 1..Len(SubMenu), k \in 0..MaxSubs}

(***************************************************************************)
(* The compilation of one unit.                                            *)
(***************************************************************************)
\* The engine as constructed: the tokenizer before its first advance(), an
\* empty symbol table, no output.
InitEngine ==
    /\ current_index = 0
    /\ current_token = None
    /\ class_scope = NewSymbolTable.class_scope
    /\ subroutine_scope = NewSymbolTable.subroutine_scope
    /\ counts = NewSymbolTable.counts
    /\ current_class = None
    /\ subroutine_type = "None"
    /\ current_function_name = None
    /\ label_counter = 0
    /\ out = <<>>
    /\ stack = <<>>
    /\ retval = 0
    /\ status = "init"

\* The tokenizer after __init__; its text is not kept where the tokens are
\* given.
Constructed == [phase |-> "constructed"]

\* Nothing is translated to assembly and nothing is run while a class is
\* compiled.
NotLowering ==
    /\ translator = [phase |-> "none"]
    /\ cpu = [phase |-> "none"]

Init ==
    /\ unit \in Units
    /\ tokens = TokensOf(unit)
    /\ tokenizer = Constructed
    /\ InitEngine
    /\ NotLowering

\* The caller of the engine: the first advance(), then compile_class().
Main ==
    /\ status = "init"
    /\ LET tz == advance([index |-> current_index, token |-> current_token])
       IN  /\ current_index' = tz.index
           /\ current_token' = tz.token
    /\ stack' = <<[fn |-> "compile_class", pc |-> 0, l |-> NoLocals]>>
    /\ status' = "running"
    /\ UNCHANGED <<unit, tokens, class_scope, subroutine_scope, counts,
                   current_class, subroutine_type, current_function_name,
                   label_counter, out, retval, tokenizer, translator, cpu>>

Next ==
    \/ Main
    \/ compile_class_0 \/ compile_class_1 \/ compile_class_2
    \/ compile_class_var_dec_0 \/ compile_class_var_dec_1
    \/ compile_subroutine_0 \/ compile_subroutine_1 \/ compile_subroutine_2
    \/ compile_parameter_list_0 \/ compile_parameter_list_1
    \/ compile_var_dec_0 \/ compile_var_dec_1
    \/ compile_subroutine_body_0 \/ compile_subroutine_body_1
    \/ compile_subroutine_body_2
    \/ compile_statements_0
    \/ compile_do_0 \/ compile_do_1
    \/ compile_let_0 \/ compile_let_1 \/ compile_let_2
    \/ compile_while_0 \/ compile_while_1 \/ compile_while_2
    \/ compile_return_0 \/ compile_return_1
    \/ compile_if_0 \/ compile_if_1 \/ compile_if_2 \/ compile_if_3
    \/ compile_expression_0 \/ compile_expression_1 \/ compile_expression_2
    \/ compile_term_0 \/ compile_term_1 \/ compile_term_2 \/ compile_term_3
    \/ compile_term_4
    \/ compile_expression_list_0 \/ compile_expression_list_1

Spec == Init /\ [][Next]_vars

(***************************************************************************)
(* The compilation of text that is not a well-formed unit: statements that *)
(* refer to u, a name declared nowhere.                                    *)
(***************************************************************************)
UnresolvedStatements ==
    {Let("u", E1(IntT(<<"7">>))),
     LetIndex("u", E1(VarT("i")), E1(IntT(<<"7">>))),
     Let("i", E1(IndexT("u", E1(VarT("i"))))),
     Let("i", E1(VarT("u"))),
     Let("i", Expr(<<IntT(<<"7">>), UnaryT("-", VarT("u"))>>, <<"+">>)),
     Do(MethodCall("o", "m", <<E1(IndexT("u", E1(IntT(<<"1">>))))>>))}

UnresolvedUnits == {StatementUnit(<<s>>) : s \in UnresolvedStatements}

\* Text that breaks off after n tokens, and text with token i left out.
Truncated(toks, n) == SubSeq(toks, 1, n)
Without(toks, i) == SubSeq(toks, 1, i - 1) \o SubSeq(toks, i + 1, Len(toks))

\* The units whose text is damaged.
DamagedStatements ==
    {<<Let("i", Chain(5, 2))>>,
     <<LetIndex("a", E1(VarT("i")), E1(IndexT("b", E1(VarT("j")))))>>,
     <<Do(BareCallOf("g", <<E1(VarT("i")), E1(IntT(<<"7">>))>>))>>,
     <<Let("i", E1(CallT(MethodCall("o", "m", <<E1(VarT("p"))>>))))>>,
     Nest(1, 0),
     Nest(1, 1),
     <<ReturnOf(E1(UnaryT("~", VarT("i"))))>>}

DamagedUnits ==
    {StatementUnit(ss) : ss \in DamagedStatements}
    \cup {DeclarationUnit(0, 2, 2)}

\* The token sequences tried for a unit.
Texts(u) ==
    LET toks == TokensOf(u)
    IN  {toks}
        \cup (IF u \in DamagedUnits
              THEN {Truncated(toks, n) : n \in 0..(Len(toks) - 1)}
                   \cup {Without(toks, i) : i \in 1..Len(toks)}
              ELSE {})

InitAny ==
    /\ unit \in Units \cup UnresolvedUnits \cup DamagedUnits
    /\ tokens \in Texts(unit)
    /\ tokenizer = Constructed
    /\ InitEngine
    /\ NotLowering

SpecAny == InitAny /\ [][Next]_vars

\* The compilation of texts that break off.  The engine runs in one thread
\* without suspension points: while a step is possible, one is taken.
InitTruncated ==
    /\ unit \in DamagedUnits
    /\ tokens \in {Truncated(TokensOf(unit), n) : n \in 0..Len(TokensOf(unit))}
    /\ tokenizer = Constructed
    /\ InitEngine
    /\ NotLowering

FairSpecTruncated == InitTruncated /\ [][Next]_vars /\ WF_vars(Next)

(***************************************************************************)
(* The construction of the tokenizer for a text.  The texts are statements *)
(* let s="...";  with a string constant each, and comments between them.   *)
(***************************************************************************)
MaxLiterals == 2    \* string constants of a text

\* The string constants.
StringMenu ==
    <<<<"\"", "a", "b", "\"">>,
      <<"\"", "\"">>,
      <<"\"", "a", " ", "b", "\"">>,
      <<"\"", "a", ";", "b", "\"">>,
      <<"\"", "a", "/", "/", "b", "\"">>,
      <<"\"", "/", "*", "a", "\"">>,
      <<"\"", "a", "*", "/", "\"">>,
      <<"\"", "x", "/", "*", "y", "*", "/", "z", "\"">>>>

\* What follows a statement: a comment or blank space.
CommentMenu ==
    <<<<"/", "/", " ", "c", "\n">>,
      <<"/", "*", " ", "c", " ", "*", "/">>,
      <<" ">>,
      <<"/", "*", "*", " ", "\"", "q", "\"", " ", "*", "/", "\n">>>>

RECURSIVE LexerText(_, _, _)
LexerText(r, c, n) ==
    IF n = 0 THEN <<>>
    ELSE <<"l", "e", "t", " ", "s", "=">>
         \o Window(StringMenu, r, 1)[1] \o <<";">>
         \o Window(CommentMenu, c, 1)[1]
         \o LexerText(r + 1, c + 1, n - 1)

\* Lexemes without quotes and symbols: names, numbers in and out of range,
\* a keyword, and lexemes that are neither.
WordMenu ==
    <<<<"x", "1">>,
      <<"_", "a">>,
      <<"0">>,
      <<"3", "2", "7", "6", "7">>,
      <<"3", "2", "7", "6", "8">>,
      <<"1", "a">>,
      <<"a", "$", "b">>,
      <<"0", "0", "7">>,
      <<"w", "h", "i", "l", "e">>,
      <<"9", "9", "9", "9", "9">>>>

\* What stands between two lexemes: blank space or a comment.
SeparatorMenu ==
    <<<<" ">>,
      <<"/", "*", " ", "c", " ", "*", "/">>,
      <<"/", "/", " ", "c", "\n">>,
      <<"/", "*", "*", "/">>,
      <<"\n">>>>

\* The lexemes that follow: short, so that a number stays small where a
\* comment glues two of them together.
NextMenu == <<<<"b">>, <<"7">>, <<"_">>>>

\* let w <separator> v;
WordText(w, s, v) ==
    <<"l", "e", "t", " ">> \o WordMenu[w] \o SeparatorMenu[s] \o NextMenu[v]
    \o <<";">>

WordTexts ==
    {WordText(w, s, v) :
        w \in 1..Len(WordMenu), s \in 1..Len(SeparatorMenu), v \in 1..Len(NextMenu)}

LexerTexts ==
    {LexerText(r, c, n) :
        r \in 1..Len(StringMenu), c \in 1..Len(CommentMenu), n \in 1..MaxLiterals}
    \cup WordTexts

\* No unit is given when a text is.
NoUnit == [name |-> <<>>, vars |-> <<>>, subs |-> <<>>]

InitLexer ==
    /\ unit = NoUnit
    /\ tokens = <<>>
    /\ \E text \in LexerTexts :
        tokenizer = [phase |-> "_delete_comments", input_stream |-> text,
                     input |-> text, i |-> 0, result |-> <<>>,
                     in_block_comment |-> FALSE, in_line_comment |-> FALSE]
    /\ InitEngine
    /\ NotLowering

\* _delete_comments: one round of its loop, or the end of it.
delete_comments ==
    /\ tokenizer.phase = "_delete_comments"
    /\ tokenizer' =
        IF tokenizer.i < Len(tokenizer.input) THEN DeleteStep(tokenizer)
        ELSE [tokenizer EXCEPT !.input = tokenizer.result,
                               !.phase = "_isolate_strings"]
    /\ UNCHANGED <<unit, tokens, current_index, current_token, class_scope,
                   subroutine_scope, counts, current_class, subroutine_type,
                   current_function_name, label_counter, out, stack, retval,
                   status, translator, cpu>>

isolate_strings ==
    /\ tokenizer.phase = "_isolate_strings"
    /\ tokens' = IsolatedStrings(tokenizer.input)
    /\ tokenizer' = [tokenizer EXCEPT !.phase = "_split_non_string_tokens"]
    /\ UNCHANGED <<unit, current_index, current_token, class_scope,
                   subroutine_scope, counts, current_class, subroutine_type,
                   current_function_name, label_counter, out, stack, retval,
                   status, translator, cpu>>

\* _split_non_string_tokens and the end of __init__
split_non_string_tokens ==
    /\ tokenizer.phase = "_split_non_string_tokens"
    /\ tokens' = SplitTokens(tokens, 1, <<>>)
    /\ current_index' = 0
    /\ current_token' = None
    /\ tokenizer' = [tokenizer EXCEPT !.phase = "constructed"]
    /\ UNCHANGED <<unit, class_scope, subroutine_scope, counts, current_class,
                   subroutine_type, current_function_name, label_counter,
                   out, stack, retval, status, translator, cpu>>

NextLexer == delete_comments \/ isolate_strings \/ split_non_string_tokens

SpecLexer == InitLexer /\ [][NextLexer]_vars

(***************************************************************************)
(* What the unit holds, read off its tree: the statements and expressions  *)
(* that occur in it, the scope each occurs in, and the value the label     *)
(* counter has when it is reached.                                         *)
(***************************************************************************)
\* The if and while statements in a statement list, nested ones included.
RECURSIVE CtlCount(_)
CtlCount(ss) ==
    IF ss = <<>> THEN 0
    ELSE LET s == Head(ss)
         IN  (CASE s.s = "if" ->
                      1 + CtlCount(s.then)
                      + (IF s.orelse = <<>> THEN 0 ELSE CtlCount(s.orelse[1]))
                [] s.s = "while" -> 1 + CtlCount(s.body)
                [] OTHER -> 0)
             + CtlCount(Tail(ss))

\* The statements of a list, nested ones included, each with the number k
\* of if and while statements met before it.
RECURSIVE StatementsIn(_, _)
StatementsIn(ss, k) ==
    IF ss = <<>> THEN {}
    ELSE LET s == Head(ss)
         IN  {[s |-> s, k |-> k]}
             \cup (CASE s.s = "if" ->
                          StatementsIn(s.then, k + 1)
                          \cup (IF s.orelse = <<>> THEN {}
                                ELSE StatementsIn(s.orelse[1],
                                                  k + 1 + CtlCount(s.then)))
                     [] s.s = "while" -> StatementsIn(s.body, k + 1)
                     [] OTHER -> {})
             \cup StatementsIn(Tail(ss), k + CtlCount(<<s>>))

\* The if and while statements of the subroutines before subroutine f.
RECURSIVE CtlBefore(_, _)
CtlBefore(u, f) ==
    IF f = 1 THEN 0 ELSE CtlBefore(u, f - 1) + CtlCount(u.subs[f - 1].body)

\* Every statement of the unit: [f, s, k], f the number of its subroutine.
UnitStatements(u) ==
    UNION {{[f |-> f, s |-> o.s, k |-> o.k] :
                o \in StatementsIn(u.subs[f].body, CtlBefore(u, f))} :
           f \in 1..Len(u.subs)}

\* The expressions an expression holds, itself included.
RECURSIVE ExpressionsIn(_)
RECURSIVE ExpressionsInTerm(_)
ExpressionsInTerm(t) ==
    CASE t.t = "index" -> ExpressionsIn(t.index)
      [] t.t = "call" ->
            UNION {ExpressionsIn(t.call.args[i]) : i \in 1..Len(t.call.args)}
      [] t.t = "paren" -> ExpressionsIn(t.expr)
      [] t.t = "unary" -> ExpressionsInTerm(t.term)
      [] OTHER -> {}

ExpressionsIn(e) ==
    {e} \cup UNION {ExpressionsInTerm(e.terms[i]) : i \in 1..Len(e.terms)}

\* The expressions written in a statement itself (not in nested statements).
StatementExpressions(s) ==
    CASE s.s = "let" ->
            (IF s.index = <<>> THEN {} ELSE ExpressionsIn(s.index[1]))
            \cup ExpressionsIn(s.value)
      [] s.s \in {"if", "while"} -> ExpressionsIn(s.cond)
      [] s.s = "do" ->
            UNION {ExpressionsIn(s.call.args[i]) : i \in 1..Len(s.call.args)}
      [] s.s = "return" ->
            IF s.value = <<>> THEN {} ELSE ExpressionsIn(s.value[1])

\* Every expression of the unit: [f, e].
UnitExpressions(u) ==
    UNION {{[f |-> o.f, e |-> e] : e \in StatementExpressions(o.s)} :
           o \in UnitStatements(u)}

\* Every subroutine call of the unit: [f, c, do], do when it is a do
\* statement's and not a term's.
UnitCalls(u) ==
    {[f |-> o.f, c |-> o.s.call, do |-> TRUE] :
        o \in {x \in UnitStatements(u) : x.s.s = "do"}}
    \cup UNION {{[f |-> o.f, c |-> o.e.terms[i].call, do |-> FALSE] :
                    i \in {j \in 1..Len(o.e.terms) : o.e.terms[j].t = "call"}} :
                o \in UnitExpressions(u)}
    \cup UNION {{[f |-> o.f, c |-> o.e.terms[i].term.call, do |-> FALSE] :
                    i \in {j \in 1..Len(o.e.terms) :
                            /\ o.e.terms[j].t = "unary"
                            /\ o.e.terms[j].term.t = "call"}} :
                o \in UnitExpressions(u)}

\* The scope table after the declarations of the class and of subroutine f.
RECURSIVE Declared(_, _, _, _)
Declared(st, names, type, kind) ==
    IF names = <<>> THEN st
    ELSE Declared(define(st, Head(names), type, kind), Tail(names), type, kind)

RECURSIVE DeclaredAll(_, _)
DeclaredAll(st, decs) ==
    IF decs = <<>> THEN st
    ELSE DeclaredAll(
            Declared(st, Head(decs).names, Head(decs).type,
                     upper(Head(decs).kind)),
            Tail(decs))

RECURSIVE DeclaredParams(_, _)
DeclaredParams(st, params) ==
    IF params = <<>> THEN st
    ELSE DeclaredParams(
            define(st, Head(params).name, Head(params).type, "ARG"),
            Tail(params))

ScopeOf(u, f) ==
    LET sub == u.subs[f]
        cls == DeclaredAll(NewSymbolTable, u.vars)
        recv == IF sub.kind = kw_method
                THEN define(cls, kw_this, u.name, "ARG")
                ELSE cls
    IN  DeclaredAll(DeclaredParams(recv, sub.params), sub.locals)

(***************************************************************************)
(* The code the compiler is to emit for a construct, by the rules of the   *)
(* language's standard mapping on the stack machine.  st is the scope the  *)
(* construct occurs in, cls the name of the class, k the label counter.    *)
(***************************************************************************)
PushVar(st, name) == <<"push", kind_of(st, name), index_of(st, name)>>

RECURSIVE ExpressionCode(_, _, _)
RECURSIVE TermCode(_, _, _)

\* The code of the arguments, in order.
ArgsCode(st, cls, args) ==
    Flat([i \in 1..Len(args) |-> ExpressionCode(st, cls, args[i])])

\* The receiver a call pushes, if any.
ReceiverCode(st, c) ==
    IF c.recv = <<>> THEN << <<"push", "POINTER", 0>> >>
    ELSE IF Resolves(st, c.recv[1]) THEN <<PushVar(st, c.recv[1])>>
    ELSE <<>>

\* The call instruction of a call.
CallInstruction(st, cls, c) ==
    IF c.recv = <<>> THEN <<"call", Dotted(cls, c.name), Len(c.args) + 1>>
    ELSE IF Resolves(st, c.recv[1])
    THEN <<"call", Dotted(type_of(st, c.recv[1]), c.name), Len(c.args) + 1>>
    ELSE <<"call", Dotted(c.recv[1], c.name), Len(c.args)>>

CallCode(st, cls, c) ==
    ReceiverCode(st, c) \o ArgsCode(st, cls, c.args)
    \o <<CallInstruction(st, cls, c)>>

StringCode(chars) ==
    << <<"push", "CONST", Len(chars)>>, <<"call", String_new, 1>> >>
    \o Flat([i \in 1..Len(chars) |->
                << <<"push", "CONST", ord(chars[i])>>,
                   <<"call", String_appendChar, 2>> >>])

IndexedReadCode(st, cls, t) ==
    <<PushVar(st, t.name)>> \o ExpressionCode(st, cls, t.index)
    \o << <<"arithmetic", "+">>, <<"pop", "POINTER", 1>>, <<"push", "THAT", 0>> >>

TermCode(st, cls, t) ==
    CASE t.t = "int" -> << <<"push", "CONST", int(t.tok)>> >>
      [] t.t = "str" -> StringCode(SubSeq(t.tok, 2, Len(t.tok) - 1))
      [] t.t = "kw" ->
            (CASE t.tok = kw_true ->
                    << <<"push", "CONST", 0>>, <<"arithmetic", "NOT">> >>
               [] t.tok = kw_this -> << <<"push", "POINTER", 0>> >>
               [] OTHER -> << <<"push", "CONST", 0>> >>)
      [] t.t = "var" -> <<PushVar(st, t.name)>>
      [] t.t = "index" -> IndexedReadCode(st, cls, t)
      [] t.t = "call" -> CallCode(st, cls, t.call)
      [] t.t = "paren" -> ExpressionCode(st, cls, t.expr)
      [] t.t = "unary" ->
            TermCode(st, cls, t.term)
            \o << <<"arithmetic", IF t.op = "-" THEN "NEG" ELSE "NOT">> >>

\* a OP b: the code of a, the code of b, OP; a chain from left to right.
ExpressionCode(st, cls, e) ==
    LET n == Len(e.terms)
    IN  IF n = 1 THEN TermCode(st, cls, e.terms[1])
        ELSE ExpressionCode(st, cls,
                            Expr(SubSeq(e.terms, 1, n - 1),
                                 SubSeq(e.ops, 1, n - 2)))
             \o TermCode(st, cls, e.terms[n])
             \o << <<"arithmetic", e.ops[n - 1]>> >>

RECURSIVE StatementsCode(_, _, _, _, _)

IfElseCode(st, cls, kind, s, k) ==
    ExpressionCode(st, cls, s.cond)
    \o << <<"arithmetic", "NOT">>, <<"if-goto", Label(IF_ELSE, k)>> >>
    \o StatementsCode(st, cls, kind, s.then, k + 1)
    \o << <<"goto", Label(IF_END, k)>>, <<"label", Label(IF_ELSE, k)>> >>
    \o StatementsCode(st, cls, kind, s.orelse[1], k + 1 + CtlCount(s.then))
    \o << <<"label", Label(IF_END, k)>> >>

IfCode(st, cls, kind, s, k) ==
    ExpressionCode(st, cls, s.cond)
    \o << <<"arithmetic", "NOT">>, <<"if-goto", Label(IF_ELSE, k)>> >>
    \o StatementsCode(st, cls, kind, s.then, k + 1)
    \o << <<"label", Label(IF_ELSE, k)>>, <<"label", Label(IF_END, k)>> >>

WhileCode(st, cls, kind, s, k) ==
    << <<"label", Label(WHILE_EXP, k)>> >>
    \o ExpressionCode(st, cls, s.cond)
    \o << <<"arithmetic", "NOT">>, <<"if-goto", Label(WHILE_END, k)>> >>
    \o StatementsCode(st, cls, kind, s.body, k + 1)
    \o << <<"goto", Label(WHILE_EXP, k)>>, <<"label", Label(WHILE_END, k)>> >>

\* let arr[i] = v
IndexedStoreCode(st, cls, s) ==
    <<PushVar(st, s.name)>> \o ExpressionCode(st, cls, s.index[1])
    \o << <<"arithmetic", "+">> >>
    \o ExpressionCode(st, cls, s.value)
    \o << <<"pop", "TEMP", 0>>, <<"pop", "POINTER", 1>>,
          <<"push", "TEMP", 0>>, <<"pop", "THAT", 0>> >>

LetCode(st, cls, s) ==
    IF s.index # <<>> THEN IndexedStoreCode(st, cls, s)
    ELSE ExpressionCode(st, cls, s.value)
         \o << <<"pop", kind_of(st, s.name), index_of(st, s.name)>> >>

DoCode(st, cls, s) == CallCode(st, cls, s.call) \o << <<"pop", "TEMP", 0>> >>

ReturnCode(st, cls, kind, s) ==
    (IF s.value # <<>> THEN ExpressionCode(st, cls, s.value[1])
     ELSE IF kind = kw_constructor THEN << <<"push", "POINTER", 0>> >>
     ELSE << <<"push", "CONST", 0>> >>)
    \o << <<"return">> >>

StatementCode(st, cls, kind, s, k) ==
    CASE s.s = "let" -> LetCode(st, cls, s)
      [] s.s = "if" -> IF s.orelse = <<>> THEN IfCode(st, cls, kind, s, k)
                       ELSE IfElseCode(st, cls, kind, s, k)
      [] s.s = "while" -> WhileCode(st, cls, kind, s, k)
      [] s.s = "do" -> DoCode(st, cls, s)
      [] s.s = "return" -> ReturnCode(st, cls, kind, s)

StatementsCode(st, cls, kind, ss, k) ==
    IF ss = <<>> THEN <<>>
    ELSE StatementCode(st, cls, kind, Head(ss), k)
         \o StatementsCode(st, cls, kind, Tail(ss), k + CtlCount(<<Head(ss)>>))

\* code occurs in o as one stretch
Contains(o, code) ==
    \E p \in 0..(Len(o) - Len(code)) : SubSeq(o, p + 1, p + Len(code)) = code


(***************************************************************************)
(* Properties of the emitted code.                                         *)
(***************************************************************************)
IsPrefix(a, b) == Len(a) <= Len(b) /\ SubSeq(b, 1, Len(a)) = a

Distinct(seq) ==
    \A i, j \in 1..Len(seq) : i # j => seq[i] # seq[j]

IsFunction(i) == i[1] = "function"
IsLabel(i) == i[1] = "label"

\* The names of the function instructions of o, in order.
FunctionNames(o) ==
    LET F == SelectSeq(o, IsFunction) IN [j \in 1..Len(F) |-> F[j][2]]

\* The names the label instructions of o define, in order.
LabelNames(o) ==
    LET F == SelectSeq(o, IsLabel) IN [j \in 1..Len(F) |-> F[j][2]]

\* Class.sub for the subroutines the unit declares, in order.
DeclaredNames(u) ==
    [j \in 1..Len(u.subs) |-> Dotted(u.name, u.subs[j].name)]

\* The instructions of o that name label lb.
Naming(o, lb) ==
    {p \in 1..Len(o) :
        o[p][1] \in {"label", "goto", "if-goto"} /\ o[p][2] = lb}

\* C1: compile_class emits one function instruction per declared
\* subroutine, named Class.sub, in the order of declaration: what has been
\* emitted is at any time a prefix of the declared names, and all of them
\* when the class is compiled.
C1_FunctionPerSubroutine ==
    /\ IsPrefix(FunctionNames(out), DeclaredNames(unit))
    /\ status = "done" => FunctionNames(out) = DeclaredNames(unit)

C1_Witness ==
    /\ status = "done"
    /\ Len(unit.subs) >= 2
    /\ Len(FunctionNames(out)) >= 2
    /\ unit.subs[1].kind # unit.subs[2].kind

\* C2: the label instructions of one unit define pairwise distinct names,
\* whatever the nesting and the subroutines the if and while statements are
\* in, and no step lowers the label counter.
C2_LabelsDistinct ==
    /\ [](Distinct(LabelNames(out)))
    /\ [][label_counter' >= label_counter]_vars

C2_Witness ==
    /\ status = "done"
    /\ \E f \in 2..Len(unit.subs) :
        /\ CtlBefore(unit, f) > 0
        /\ CtlCount(unit.subs[f].body) > 1
    /\ Len(LabelNames(out)) >= 6

\* The if statements with an else clause that the unit holds.
IfElses(u) == {o \in UnitStatements(u) : o.s.s = "if" /\ o.s.orelse # <<>>}

\* C3: an if statement with an else clause is compiled to code(condition),
\* not, if-goto ELSE, code(then), goto END, label ELSE, code(else),
\* label END; ELSE and END are named by no other instruction of the unit.
C3_IfElseOrder ==
    status = "done" =>
        \A o \in IfElses(unit) :
            /\ Contains(out, IfElseCode(ScopeOf(unit, o.f), unit.name,
                                        unit.subs[o.f].kind, o.s, o.k))
            /\ Cardinality(Naming(out, Label(IF_ELSE, o.k))) = 2
            /\ Cardinality(Naming(out, Label(IF_END, o.k))) = 2

C3_Witness ==
    /\ status = "done"
    /\ \E o \in IfElses(unit) :
        /\ CtlCount(o.s.then) > 0
        /\ CtlCount(o.s.orelse[1]) > 0
        /\ o.k > 0

\* C4: an expression term (op term)* is compiled from left to right: the
\* code of what stands left of an operator, the code of the term right of
\* it, then the operator.
C4_OperandsBeforeOperator ==
    status = "done" =>
        \A o \in UnitExpressions(unit) :
            \A n \in 2..Len(o.e.terms) :
                Contains(out,
                    ExpressionCode(ScopeOf(unit, o.f), unit.name,
                                   Expr(SubSeq(o.e.terms, 1, n - 1),
                                        SubSeq(o.e.ops, 1, n - 2)))
                    \o TermCode(ScopeOf(unit, o.f), unit.name, o.e.terms[n])
                    \o << <<"arithmetic", o.e.ops[n - 1]>> >>)

C4_Witness ==
    /\ status = "done"
    /\ \E o \in UnitExpressions(unit) :
        /\ Len(o.e.terms) >= 3
        /\ \E n \in 1..Len(o.e.terms) : o.e.terms[n].t \in {"paren", "call"}

(***************************************************************************)
(* The stack machine the code runs on: 16-bit words, a stack, and a memory *)
(* of which the segments are parts.  A machine is [stack, ram, seed]: ram  *)
(* lists the words written, newest first, and a word never written holds  *)
(* what the seed gives.  A call consumes its arguments, leaves a result    *)
(* and may change TEMP 0.                                                  *)
(***************************************************************************)
Wrap(n) == n % 65536
Signed(x) == IF x >= 32768 THEN x - 65536 ELSE x
Truth(b) == IF b THEN 65535 ELSE 0

InitWord(seed, a) == 2048 + ((a * seed + seed) % 1024)

Machine(seed) == [stack |-> <<>>, ram |-> <<>>, seed |-> seed, ok |-> TRUE]

RECURSIVE Find(_, _, _)
Find(ram, a, seed) ==
    IF ram = <<>> THEN InitWord(seed, a)
    ELSE IF Head(ram)[1] = a THEN Head(ram)[2]
    ELSE Find(Tail(ram), a, seed)

Read(mach, a) == Find(mach.ram, a, mach.seed)
Write(mach, a, v) == [mach EXCEPT !.ram = <<<<a, v>>>> \o @]

\* The address of entry index of a segment.
SegmentAddress(mach, segment, index) ==
    CASE segment \in {"VAR", "LOCAL"} -> 300 + index
      [] segment = "ARG" -> 400 + index
      [] segment = "STATIC" -> 16 + index
      [] segment = "TEMP" -> 5 + index
      [] segment = "POINTER" -> 3 + index
      [] segment \in {"FIELD", "THIS"} -> Wrap(Read(mach, 3) + index)
      [] segment = "THAT" -> Wrap(Read(mach, 4) + index)

RECURSIVE BitAnd(_, _, _)
BitAnd(x, y, n) ==
    IF n = 0 THEN 0
    ELSE (x % 2) * (y % 2) + 2 * BitAnd(x \div 2, y \div 2, n - 1)

Magnitude(x) == IF Signed(x) < 0 THEN -Signed(x) ELSE Signed(x)

\* The comparisons test the 16-bit difference of the operands, as the
\* code written for them does.
Binary(op, x, y) ==
    CASE op = "+" -> Wrap(x + y)
      [] op = "-" -> Wrap(x - y)
      [] op = "*" -> Wrap(x * y)
      [] op = "/" ->
            IF y = 0 THEN 0
            ELSE IF (Signed(x) < 0) = (Signed(y) < 0)
            THEN Wrap(Magnitude(x) \div Magnitude(y))
            ELSE Wrap(-(Magnitude(x) \div Magnitude(y)))
      [] op = "&" -> BitAnd(x, y, 16)
      [] op = "|" -> 65535 - BitAnd(65535 - x, 65535 - y, 16)
      [] op = "<" -> Truth(Signed(Wrap(x - y)) < 0)
      [] op = ">" -> Truth(Signed(Wrap(x - y)) > 0)
      [] op = "=" -> Truth(Wrap(x - y) = 0)

Unary(op, x) == IF op = "NEG" THEN Wrap(-x) ELSE 65535 - x

\* What a call of name with n arguments returns.
Result(name, n) == 2048 + 8 * Len(name) + n

Pushed(mach, v) == [mach EXCEPT !.stack = Append(@, v)]
Popped(mach, n) ==
    [mach EXCEPT !.stack = SubSeq(@, 1, Len(@) - n)]
Peek(mach, d) == mach.stack[Len(mach.stack) - d]
Fault(mach) == [mach EXCEPT !.ok = FALSE]

\* One instruction.
Step(mach, i) ==
    LET depth == Len(mach.stack)
    IN  CASE i[1] = "push" ->
                IF i[2] = "CONST" THEN Pushed(mach, i[3])
                ELSE IF i[2] = Unresolved THEN Fault(mach)
                ELSE Pushed(mach, Read(mach, SegmentAddress(mach, i[2], i[3])))
          [] i[1] = "pop" ->
                IF depth < 1 \/ i[2] \in {"CONST", Unresolved} THEN Fault(mach)
                ELSE Popped(Write(mach, SegmentAddress(mach, i[2], i[3]),
                                  Peek(mach, 0)), 1)
          [] i[1] = "arithmetic" ->
                IF i[2] \in {"NEG", "NOT"}
                THEN IF depth < 1 THEN Fault(mach)
                     ELSE Pushed(Popped(mach, 1), Unary(i[2], Peek(mach, 0)))
                ELSE IF depth < 2 THEN Fault(mach)
                     ELSE Pushed(Popped(mach, 2),
                                 Binary(i[2], Peek(mach, 1), Peek(mach, 0)))
          [] i[1] = "call" ->
                IF depth < i[3] THEN Fault(mach)
                ELSE Pushed(Write(Popped(mach, i[3]), 5, 65535 - depth),
                            Result(i[2], i[3]))
          [] OTHER -> Fault(mach)

RECURSIVE Run(_, _)
Run(code, mach) ==
    IF code = <<>> \/ ~mach.ok THEN mach
    ELSE Run(Tail(code), Step(mach, Head(code)))

(***************************************************************************)
(* The value of an expression of the language on a machine.                *)
(***************************************************************************)
ValueOfVar(st, name, mach) ==
    Read(mach, SegmentAddress(mach, kind_of(st, name), index_of(st, name)))

RECURSIVE ValueOf(_, _, _, _)
RECURSIVE ValueOfTerm(_, _, _, _)
ValueOfTerm(st, cls, t, mach) ==
    CASE t.t = "int" -> int(t.tok)
      [] t.t = "str" ->
            IF Len(t.tok) = 2 THEN Result(String_new, 1)
            ELSE Result(String_appendChar, 2)
      [] t.t = "kw" ->
            (CASE t.tok = kw_true -> Truth(TRUE)
               [] t.tok = kw_this -> Read(mach, 3)
               [] OTHER -> 0)
      [] t.t = "var" -> ValueOfVar(st, t.name, mach)
      [] t.t = "index" ->
            Read(mach, Wrap(ValueOfVar(st, t.name, mach)
                            + ValueOf(st, cls, t.index, mach)))
      [] t.t = "call" ->
            Result(CallInstruction(st, cls, t.call)[2],
                   CallInstruction(st, cls, t.call)[3])
      [] t.t = "paren" -> ValueOf(st, cls, t.expr, mach)
      [] t.t = "unary" ->
            Unary(IF t.op = "-" THEN "NEG" ELSE "NOT",
                  ValueOfTerm(st, cls, t.term, mach))

ValueOf(st, cls, e, mach) ==
    LET n == Len(e.terms)
    IN  IF n = 1 THEN ValueOfTerm(st, cls, e.terms[1], mach)
        ELSE Binary(e.ops[n - 1],
                    ValueOf(st, cls,
                            Expr(SubSeq(e.terms, 1, n - 1),
                                 SubSeq(e.ops, 1, n - 2)), mach),
                    ValueOfTerm(st, cls, e.terms[n], mach))

\* The machines the code is tried on.
Seeds == {3, 5, 11}

\* The statements let arr[i] = v that the unit holds.
IndexedLets(u) == {o \in UnitStatements(u) : o.s.s = "let" /\ o.s.index # <<>>}

\* push arr, code(i), add, code(v): what comes before the store.
AddressAndValueCode(st, cls, s) ==
    <<PushVar(st, s.name)>> \o ExpressionCode(st, cls, s.index[1])
    \o << <<"arithmetic", "+">> >>
    \o ExpressionCode(st, cls, s.value)

\* The four instructions of the store.
StoreCode ==
    << <<"pop", "TEMP", 0>>, <<"pop", "POINTER", 1>>,
       <<"push", "TEMP", 0>>, <<"pop", "THAT", 0>> >>

\* Run from a machine of seed, code leaves the value of v in the word at
\* arr + i and the stack as it was.
Stores(code, st, cls, s, seed) ==
    LET before == Machine(seed)
        after == Run(code, before)
        address == Wrap(ValueOfVar(st, s.name, before)
                        + ValueOf(st, cls, s.index[1], before))
    IN  /\ after.ok
        /\ after.stack = before.stack
        /\ Read(after, address) = ValueOf(st, cls, s.value, before)

\* C5: let arr[i] = v is compiled to push arr, code(i), add, code(v),
\* pop TEMP 0, pop POINTER 1, push TEMP 0, pop THAT 0, and run on the stack
\* machine this stretch of the output leaves the value of v in the word at
\* address arr + i, also when v holds indexed reads and calls.
C5_IndexedStore ==
    status = "done" =>
        \A o \in IndexedLets(unit) :
            LET st == ScopeOf(unit, o.f)
                head == AddressAndValueCode(st, unit.name, o.s)
                n == Len(head)
            IN  \E p \in 0..(Len(out) - n - 4) :
                    /\ SubSeq(out, p + 1, p + n) = head
                    /\ SubSeq(out, p + n + 1, p + n + 4) = StoreCode
                    /\ \A seed \in Seeds :
                        Stores(SubSeq(out, p + 1, p + n + 4),
                               st, unit.name, o.s, seed)

C5_Witness ==
    /\ status = "done"
    /\ \E o \in IndexedLets(unit) :
        /\ \E e \in ExpressionsIn(o.s.value) :
            \E n \in 1..Len(e.terms) : e.terms[n].t = "index"
        /\ \E e \in ExpressionsIn(o.s.value) :
            \E n \in 1..Len(e.terms) : e.terms[n].t = "call"
        /\ Len(o.s.index[1].terms) > 1

(***************************************************************************)
(* The step that resolves a subroutine call: compile_do at the 'do', or    *)
(* compile_term at an identifier that '.' or '(' follows.                  *)
(***************************************************************************)
ResolvingInDo ==
    /\ status = "running"
    /\ At("compile_do", 0)
    /\ IsKeyword(Cur, {"DO"})
    /\ current_index + 2 <= Len(tokens)

ResolvingInTerm ==
    /\ status = "running"
    /\ At("compile_term", 0)
    /\ IsIdentifier(Cur)
    /\ current_index + 1 <= Len(tokens)
    /\ tokens[current_index + 1] \in {Ch("."), Ch("(")}

Resolving == ResolvingInDo \/ ResolvingInTerm

\* The name the call begins with, and the token after it.
LeadingName ==
    IF ResolvingInDo THEN tokens[current_index + 1] ELSE current_token

AfterLeadingName ==
    IF ResolvingInDo THEN tokens[current_index + 2]
    ELSE tokens[current_index + 1]

\* The calls of the unit by the form of what they begin with.
CallsOnVariable(u) ==
    {o \in UnitCalls(u) :
        o.c.recv # <<>> /\ Resolves(ScopeOf(u, o.f), o.c.recv[1])}

CallsOnClass(u) ==
    {o \in UnitCalls(u) :
        o.c.recv # <<>> /\ ~Resolves(ScopeOf(u, o.f), o.c.recv[1])}

BareCalls(u) == {o \in UnitCalls(u) : o.c.recv = <<>>}

\* C6: obj.m(e1..en) with obj a variable of type T, in a do statement or in
\* a term, is compiled to the push of obj, the code of e1..en in order and
\* call T.m n+1; the step that resolves the call writes the push of obj.
C6_MethodCallOnVariable ==
    /\ [](status = "done" =>
            \A o \in CallsOnVariable(unit) :
                LET st == ScopeOf(unit, o.f)
                IN  Contains(out,
                        <<PushVar(st, o.c.recv[1])>>
                        \o ArgsCode(st, unit.name, o.c.args)
                        \o << <<"call",
                                Dotted(type_of(st, o.c.recv[1]), o.c.name),
                                Len(o.c.args) + 1>> >>))
    /\ [][(/\ Resolving
           /\ AfterLeadingName = Ch(".")
           /\ Resolves(Cur.st, LeadingName))
          => out' = Append(out, <<"push", kind_of(Cur.st, LeadingName),
                                   index_of(Cur.st, LeadingName)>>)]_vars

C6_Witness ==
    /\ status = "done"
    /\ \E o \in CallsOnVariable(unit) : o.do /\ Len(o.c.args) >= 2
    /\ \E o \in CallsOnVariable(unit) : ~o.do

\* C7: Name.f(e1..en) with Name no variable of the scope table is compiled
\* to the code of e1..en and call Name.f n; the step that resolves the call
\* writes nothing, so no receiver is pushed.
C7_FunctionCallOnClass ==
    /\ [](status = "done" =>
            \A o \in CallsOnClass(unit) :
                LET st == ScopeOf(unit, o.f)
                IN  Contains(out,
                        ArgsCode(st, unit.name, o.c.args)
                        \o << <<"call", Dotted(o.c.recv[1], o.c.name),
                                Len(o.c.args)>> >>))
    /\ [][(/\ Resolving
           /\ AfterLeadingName = Ch(".")
           /\ ~Resolves(Cur.st, LeadingName))
          => out' = out]_vars

C7_Witness ==
    /\ status = "done"
    /\ \E o \in CallsOnClass(unit) : o.do /\ Len(o.c.args) >= 2
    /\ \E o \in CallsOnClass(unit) : ~o.do

\* An instruction that calls subroutine name of the class of the unit.
CallsOwn(i, name) == i[1] = "call" /\ i[2] = Dotted(unit.name, name)

\* C8: a bare call f(e1..en) is compiled to push POINTER 0, the code of
\* e1..en and call Class.f n+1, Class the class being compiled.  When f is
\* a variable the step that resolves the call ends the compilation in an
\* error and writes nothing: the compilation is never done and the output
\* never holds a call of Class.f.
C8_BareCall ==
    /\ [](\A o \in BareCalls(unit) :
            LET st == ScopeOf(unit, o.f)
            IN  IF Resolves(st, o.c.name)
                THEN /\ status # "done"
                     /\ \A p \in 1..Len(out) : ~CallsOwn(out[p], o.c.name)
                ELSE status = "done" =>
                        Contains(out,
                            << <<"push", "POINTER", 0>> >>
                            \o ArgsCode(st, unit.name, o.c.args)
                            \o << <<"call", Dotted(unit.name, o.c.name),
                                    Len(o.c.args) + 1>> >>))
    /\ [][(Resolving /\ AfterLeadingName = Ch("("))
          => IF Resolves(Cur.st, LeadingName)
             THEN status' = "error" /\ out' = out
             ELSE out' = Append(out, <<"push", "POINTER", 0>>)]_vars

\* A call on this with arguments has been compiled, and the call of a
\* variable after it has ended the compilation.
C8_Witness ==
    /\ status = "error"
    /\ \E o \in BareCalls(unit) :
        /\ ~Resolves(ScopeOf(unit, o.f), o.c.name)
        /\ Len(o.c.args) >= 2
        /\ \E p \in 1..Len(out) :
            out[p] = <<"call", Dotted(unit.name, o.c.name), Len(o.c.args) + 1>>
    /\ \E o \in BareCalls(unit) : Resolves(ScopeOf(unit, o.f), o.c.name)

(***************************************************************************)
(* The code of a subroutine in the output: from its function instruction   *)
(* to the instruction before the next one.                                 *)
(***************************************************************************)
\* The place in o of function instruction number f; past the end of o when
\* there is none.
FunctionPlace(o, f) ==
    LET places == {p \in 1..Len(o) : IsFunction(o[p])}
        upto(p) == Cardinality({q \in places : q <= p})
    IN  IF f > Cardinality(places) THEN Len(o) + 1
        ELSE CHOOSE p \in places : upto(p) = f

FunctionCount(o) == Cardinality({p \in 1..Len(o) : IsFunction(o[p])})

\* The last place of the code of subroutine f.
LastPlace(o, f) == FunctionPlace(o, f + 1) - 1

ReceiverFromArgument == << <<"push", "ARG", 0>>, <<"pop", "POINTER", 0>> >>

\* The field variables the class declares.
RECURSIVE FieldCount(_)
FieldCount(decs) ==
    IF decs = <<>> THEN 0
    ELSE (IF Head(decs).kind = kw_field THEN Len(Head(decs).names) ELSE 0)
         + FieldCount(Tail(decs))

Allocation(n) ==
    << <<"push", "CONST", n>>, <<"call", Memory_alloc, 1>>,
       <<"pop", "POINTER", 0>> >>

\* C9: at any time, the function instruction of a method is followed at
\* once by push ARG 0, pop POINTER 0, so that these stand before the code
\* of all its statements; the code of a function or a constructor holds
\* this pair nowhere.
C9_MethodBindsReceiver ==
    \A f \in 1..FunctionCount(out) :
        LET p == FunctionPlace(out, f)
            q == LastPlace(out, f)
        IN  IF unit.subs[f].kind = kw_method
            THEN /\ p + 2 <= q
                 /\ SubSeq(out, p + 1, p + 2) = ReceiverFromArgument
            ELSE \A r \in (p + 1)..(q - 1) :
                    SubSeq(out, r, r + 1) # ReceiverFromArgument

C9_Witness ==
    /\ status = "done"
    /\ FunctionCount(out) >= 2
    /\ \E f \in 1..Len(unit.subs) :
        unit.subs[f].kind = kw_method /\ Len(unit.subs[f].body) > 1
    /\ \E f \in 1..Len(unit.subs) :
        unit.subs[f].kind = kw_constructor /\ Len(unit.subs[f].body) > 1

\* C10: at any time, the function instruction of a constructor is followed
\* at once by push CONST n, call Memory.alloc 1, pop POINTER 0, n the
\* number of fields of the class (not its statics, nor the arguments and
\* locals of a subroutine), and the code of the constructor calls
\* Memory.alloc once.
C10_ConstructorAllocates ==
    \A f \in 1..FunctionCount(out) :
        LET p == FunctionPlace(out, f)
            q == LastPlace(out, f)
        IN  unit.subs[f].kind = kw_constructor =>
                /\ p + 3 <= q
                /\ SubSeq(out, p + 1, p + 3) = Allocation(FieldCount(unit.vars))
                /\ Cardinality({r \in p..q :
                        out[r][1] = "call" /\ out[r][2] = Memory_alloc}) = 1

C10_Witness ==
    /\ status = "done"
    /\ FieldCount(unit.vars) >= 2
    /\ \E f \in 1..Len(unit.subs) :
        /\ unit.subs[f].kind = kw_constructor
        /\ unit.subs[f].params # <<>>
        /\ unit.subs[f].locals # <<>>
        /\ Len(unit.subs[f].body) > 1

(***************************************************************************)
(* Return statements.                                                      *)
(***************************************************************************)
\* The return statements of a statement list in the order they are
\* written, nested ones included.
RECURSIVE ReturnsIn(_)
ReturnsIn(ss) ==
    IF ss = <<>> THEN <<>>
    ELSE LET s == Head(ss)
         IN  (CASE s.s = "return" -> <<s>>
                [] s.s = "if" ->
                      ReturnsIn(s.then)
                      \o (IF s.orelse = <<>> THEN <<>>
                          ELSE ReturnsIn(s.orelse[1]))
                [] s.s = "while" -> ReturnsIn(s.body)
                [] OTHER -> <<>>)
             \o ReturnsIn(Tail(ss))

\* The places of the return instructions in the code of subroutine f.
ReturnPlaces(o, f) ==
    {p \in FunctionPlace(o, f)..LastPlace(o, f) : o[p] = <<"return">>}

RECURSIVE NamesInTerm(_)
NamesInTerm(t) ==
    CASE t.t \in {"var", "index"} -> {t.name}
      [] t.t = "unary" -> NamesInTerm(t.term)
      [] OTHER -> {}

\* Every reference to a variable in the unit: [f, name], f the number of
\* the subroutine it occurs in.
UnitVariables(u) ==
    {[f |-> o.f, name |-> o.s.name] :
        o \in {x \in UnitStatements(u) : x.s.s = "let"}}
    \cup UNION {{[f |-> o.f, name |-> name] :
                    name \in UNION {NamesInTerm(o.e.terms[i]) :
                                        i \in 1..Len(o.e.terms)}} :
                o \in UnitExpressions(u)}

UnresolvedReferences(u) ==
    {o \in UnitVariables(u) : ~Resolves(ScopeOf(u, o.f), o.name)}

NamesUnresolved(i) == i[1] \in {"push", "pop"} /\ i[2] = Unresolved

\* C12: a unit that refers to a variable that resolves in neither scope is
\* never compiled to the end, and no push or pop that names the unresolved
\* variable is emitted, whether the reference is the target of a let, the
\* base of an indexed let or term, or a plain term.
C12_UnresolvedIsFatal ==
    (tokens = TokensOf(unit) /\ UnresolvedReferences(unit) # {}) =>
        /\ status # "done"
        /\ \A k \in 1..Len(out) : ~NamesUnresolved(out[k])

(***************************************************************************)
(* The input grammar, as the routines of the engine document it.  Each    *)
(* operator takes the tokens t and the place i of the construct's first   *)
(* token and gives the place after the construct, or 0 when the tokens    *)
(* from i on do not start with the construct.                             *)
(***************************************************************************)
TokAt(t, i) == IF i \in 1..Len(t) THEN t[i] ELSE <<>>

IsName(tok) ==
    /\ tok # <<>>
    /\ tok \notin Keywords
    /\ tok[1] \in IdentifierStartChars
    /\ \A k \in 1..Len(tok) : tok[k] \in IdentifierChars

IsConstant(tok) ==
    \/ tok # <<>> /\ token_type(tok) \in {"INT_CONST", "STRING_CONST"}
    \/ tok \in {kw_true, kw_false, kw_null, kw_this}

Expect(t, i, tok) == IF i > 0 /\ TokAt(t, i) = tok THEN i + 1 ELSE 0
ExpectName(t, i) == IF i > 0 /\ IsName(TokAt(t, i)) THEN i + 1 ELSE 0
ExpectType(t, i) ==
    IF i > 0 /\ (TokAt(t, i) \in {kw_int, kw_char, kw_boolean} \/ IsName(TokAt(t, i)))
    THEN i + 1 ELSE 0

\* (',' varName)*
RECURSIVE MoreNames(_, _)
MoreNames(t, i) ==
    IF i > 0 /\ TokAt(t, i) = Ch(",") THEN MoreNames(t, ExpectName(t, i + 1))
    ELSE i

\* classVarDec, varDec: i is at 'static', 'field' or 'var'
VarDecEnd(t, i) ==
    Expect(t, MoreNames(t, ExpectName(t, ExpectType(t, i + 1))), Ch(";"))

RECURSIVE VarDecsEnd(_, _, _)
VarDecsEnd(t, i, kws) ==
    IF i > 0 /\ TokAt(t, i) \in kws THEN VarDecsEnd(t, VarDecEnd(t, i), kws)
    ELSE i

RECURSIVE ExpressionEnd(_, _)
RECURSIVE TermEnd(_, _)
RECURSIVE MoreTerms(_, _)
RECURSIVE MoreExpressions(_, _)
RECURSIVE StatementsEnd(_, _)

\* (expression (',' expression)*)?
ExpressionListEnd(t, i) ==
    IF i = 0 THEN 0
    ELSE IF TokAt(t, i) = Ch(")") THEN i
    ELSE MoreExpressions(t, ExpressionEnd(t, i))

MoreExpressions(t, i) ==
    IF i > 0 /\ TokAt(t, i) = Ch(",")
    THEN MoreExpressions(t, ExpressionEnd(t, i + 1))
    ELSE i

\* subroutineCall: name '(' expressionList ')' or
\* name '.' name '(' expressionList ')'
CallEnd(t, i) ==
    LET name == ExpectName(t, i)
        open == IF name > 0 /\ TokAt(t, name) = Ch(".")
                THEN Expect(t, ExpectName(t, name + 1), Ch("("))
                ELSE Expect(t, name, Ch("("))
    IN  Expect(t, ExpressionListEnd(t, open), Ch(")"))

TermEnd(t, i) ==
    LET tok == TokAt(t, i)
        next == TokAt(t, i + 1)
    IN  IF i = 0 THEN 0
        ELSE IF tok \in {Ch("-"), Ch("~")} THEN TermEnd(t, i + 1)
        ELSE IF tok = Ch("(") THEN Expect(t, ExpressionEnd(t, i + 1), Ch(")"))
        ELSE IF IsConstant(tok) THEN i + 1
        ELSE IF IsName(tok)
        THEN IF next = Ch("[")
             THEN Expect(t, ExpressionEnd(t, i + 2), Ch("]"))
             ELSE IF next \in {Ch("("), Ch(".")} THEN CallEnd(t, i)
             ELSE i + 1
        ELSE 0

\* term (op term)*
ExpressionEnd(t, i) == MoreTerms(t, TermEnd(t, i))

MoreTerms(t, i) ==
    IF i > 0 /\ TokAt(t, i) \in {Ch(c) : c \in BinaryOps}
    THEN MoreTerms(t, TermEnd(t, i + 1))
    ELSE i

\* '{' statements '}'
Block(t, i) == Expect(t, StatementsEnd(t, Expect(t, i, Ch("{"))), Ch("}"))

\* '(' expression ')'
Condition(t, i) == Expect(t, ExpressionEnd(t, Expect(t, i, Ch("("))), Ch(")"))

StatementEnd(t, i) ==
    LET tok == TokAt(t, i)
        name == ExpectName(t, i + 1)
        target == IF name > 0 /\ TokAt(t, name) = Ch("[")
                  THEN Expect(t, ExpressionEnd(t, name + 1), Ch("]"))
                  ELSE name
        then == Block(t, Condition(t, i + 1))
    IN  CASE tok = kw_let ->
                Expect(t, ExpressionEnd(t, Expect(t, target, Ch("="))), Ch(";"))
          [] tok = kw_if ->
                IF then > 0 /\ TokAt(t, then) = kw_else THEN Block(t, then + 1)
                ELSE then
          [] tok = kw_while -> then
          [] tok = kw_do -> Expect(t, CallEnd(t, i + 1), Ch(";"))
          [] tok = kw_return ->
                IF TokAt(t, i + 1) = Ch(";") THEN i + 2
                ELSE Expect(t, ExpressionEnd(t, i + 1), Ch(";"))

\* statement*
StatementsEnd(t, i) ==
    IF i > 0 /\ TokAt(t, i) \in {kw_let, kw_if, kw_while, kw_do, kw_return}
    THEN StatementsEnd(t, StatementEnd(t, i))
    ELSE i

\* ((type varName) (',' type varName)*)?
RECURSIVE MoreParameters(_, _)
MoreParameters(t, i) ==
    IF i > 0 /\ TokAt(t, i) = Ch(",")
    THEN MoreParameters(t, ExpectName(t, ExpectType(t, i + 1)))
    ELSE i

ParameterListEnd(t, i) ==
    IF i = 0 THEN 0
    ELSE IF TokAt(t, i) = Ch(")") THEN i
    ELSE MoreParameters(t, ExpectName(t, ExpectType(t, i)))

\* subroutineDec: i is at 'constructor', 'function' or 'method'
SubroutineEnd(t, i) ==
    LET type == IF TokAt(t, i + 1) = kw_void THEN i + 2 ELSE ExpectType(t, i + 1)
        open == Expect(t, ExpectName(t, type), Ch("("))
        body == Expect(t, Expect(t, ParameterListEnd(t, open), Ch(")")), Ch("{"))
    IN  Expect(t, StatementsEnd(t, VarDecsEnd(t, body, {kw_var})), Ch("}"))

RECURSIVE SubroutinesEnd(_, _)
SubroutinesEnd(t, i) ==
    IF i > 0 /\ TokAt(t, i) \in {kw_constructor, kw_function, kw_method}
    THEN SubroutinesEnd(t, SubroutineEnd(t, i))
    ELSE i

\* 'class' className '{' classVarDec* subroutineDec* '}'
ClassEnd(t) ==
    LET open == Expect(t, ExpectName(t, Expect(t, 1, kw_class)), Ch("{"))
    IN  Expect(t, SubroutinesEnd(t, VarDecsEnd(t, open, {kw_static, kw_field})),
               Ch("}"))

\* The tokens are one class of the grammar and nothing else.
Conforms(t) == ClassEnd(t) = Len(t) + 1

\* C13: the compilation of a token sequence that does not conform to the
\* input grammar never completes normally: it completes only when the
\* tokens are a class of the grammar.
C13_MismatchIsFatal == status = "done" => Conforms(tokens)

(***************************************************************************)
(* Termination                                                             *)
(***************************************************************************)
\* C14: the compilation of every finite token sequence, well-formed or
\* not, comes to an end: compile_class returns or an error is raised.
C14_Terminates == <>(status \in {"done", "error"})

(***************************************************************************)
(* The output on failure                                                   *)
(***************************************************************************)
\* C15: the output only grows.  Every step, the failing one included,
\* leaves the instructions written before it in the output, unchanged and
\* in their order, and once the compilation has failed no instruction is
\* written.
C15_AppendOnly ==
    [][/\ IsPrefix(out, out')
       /\ status = "error" => out' = out]_vars

\* A do statement without its ')' has failed after its call and the pop of
\* the result were written.
C15_Witness ==
    /\ status = "error"
    /\ Len(out) > 2
    /\ out[Len(out)] = <<"pop", "TEMP", 0>>
    /\ out[Len(out) - 1][1] = "call"
    /\ ~Conforms(tokens)

(***************************************************************************)
(* The scopes at a subroutine boundary                                     *)
(***************************************************************************)
\* The step that enters a subroutine.
Entering ==
    /\ At("compile_subroutine", 0)
    /\ IsKeyword(Cur, {"CONSTRUCTOR", "FUNCTION", "METHOD"})

\* The names a subroutine declares, with this for a method.
OwnNames(sub) ==
    {sub.params[k].name : k \in 1..Len(sub.params)}
    \cup UNION {{sub.locals[d].names[k] : k \in 1..Len(sub.locals[d].names)} :
                    d \in 1..Len(sub.locals)}
    \cup (IF sub.kind = kw_method THEN {kw_this} ELSE {})

\* C16: at a subroutine boundary the subroutine scope and nothing else is
\* reset.  No step removes or changes a STATIC or FIELD entry (type, kind
\* and index stay); the step that enters a subroutine leaves the class
\* scope, the STATIC and FIELD counts and the label counter as they are
\* and empties the subroutine scope (but for this, which it defines for a
\* method); and in a subroutine only names that it declares itself resolve
\* in the subroutine scope, none of an earlier subroutine.
C16_OnlySubroutineScopeReset ==
    [][/\ \A name \in DOMAIN class_scope :
            /\ name \in DOMAIN class_scope'
            /\ class_scope'[name] = class_scope[name]
       /\ Entering =>
            /\ class_scope' = class_scope
            /\ counts'["STATIC"] = counts["STATIC"]
            /\ counts'["FIELD"] = counts["FIELD"]
            /\ label_counter' = label_counter
            /\ DOMAIN subroutine_scope' \subseteq {kw_this}
            /\ counts'["ARG"] = Cardinality(DOMAIN subroutine_scope')
            /\ counts'["VAR"] = 0
       /\ \A f \in 1..Len(unit.subs) :
            current_function_name' = unit.subs[f].name =>
                DOMAIN subroutine_scope' \subseteq OwnNames(unit.subs[f])]_vars

\* In f, which declares nothing and follows h (parameter a, local i, two
\* nested if/while), a and i do not resolve, the field o and the static s
\* do, and the label counter has kept its value.
C16_Witness ==
    /\ status = "running"
    /\ Len(unit.subs) = 2
    /\ unit.subs[1].name = Ch("h")
    /\ current_function_name = Ch("f")
    /\ label_counter = CtlCount(unit.subs[1].body)
    /\ label_counter > 0
    /\ ~Resolves(Cur.st, Ch("a"))
    /\ ~Resolves(Cur.st, Ch("i"))
    /\ kind_of(Cur.st, Ch("o")) = "FIELD"
    /\ kind_of(Cur.st, Ch("s")) = "STATIC"
    /\ index_of(Cur.st, Ch("s")) = 0

(***************************************************************************)
(* The indexes of the parameters                                           *)
(***************************************************************************)
\* The names the var declarations of a subroutine declare.
LocalNames(sub) ==
    UNION {{sub.locals[d].names[k] : k \in 1..Len(sub.locals[d].names)} :
                d \in 1..Len(sub.locals)}

\* C17: while subroutine f is compiled, its k-th declared parameter
\* (k from 0), once defined, is of kind ARG with index k + 1 in a method
\* and index k in a function or constructor; in a method this is defined
\* with index 0 from the step on that enters the parameter list, and in a
\* function or constructor it is not defined at all.
C17_ParameterIndexes ==
    \A f \in 1..Len(unit.subs) :
        LET sub == unit.subs[f]
            first == IF sub.kind = kw_method THEN 1 ELSE 0
        IN  (status = "running" /\ current_function_name = sub.name) =>
                /\ \A k \in 0..(Len(sub.params) - 1) :
                        LET name == sub.params[k + 1].name
                        IN  (name \in DOMAIN subroutine_scope
                             /\ name \notin LocalNames(sub)) =>
                                /\ subroutine_scope[name].kind = "ARG"
                                /\ subroutine_scope[name].index = k + first
                /\ (kw_this \in DOMAIN subroutine_scope) = (sub.kind = kw_method)
                /\ sub.kind = kw_method =>
                        subroutine_scope[kw_this] =
                            [type |-> unit.name, kind |-> "ARG", index |-> 0]
                /\ ~At("compile_parameter_list", 0) /\ ~At("compile_parameter_list", 1)
                        => \A k \in 1..Len(sub.params) :
                                sub.params[k].name \in DOMAIN subroutine_scope

\* The body of the method r(int i, boolean j) is compiled with i at ARG 1
\* and j at ARG 2; the body of the function k(int c, B d) with c at ARG 0
\* and d at ARG 1.
C17_Witness ==
    /\ status = "running"
    /\ \E f \in 1..Len(unit.subs) :
        /\ current_function_name = unit.subs[f].name
        /\ unit.subs[f].kind = kw_function
        /\ Len(unit.subs[f].params) = 2
        /\ At("compile_statements", 0)
        /\ f > 1
        /\ unit.subs[f - 1].kind = kw_method
        /\ Len(unit.subs[f - 1].params) = 2
        /\ index_of(Cur.st, unit.subs[f].params[2].name) = 1

(***************************************************************************)
(* The segments of push and pop                                            *)
(***************************************************************************)
RecognizedSegments ==
    {"CONST", "ARG", "LOCAL", "STATIC", "FIELD", "THAT", "POINTER", "TEMP"}

\* C18: every push and pop in the output names a recognized segment, for
\* variables of every kind, and every push or pop of POINTER has index 0
\* or 1.
C18_RecognizedSegments ==
    \A k \in 1..Len(out) :
        out[k][1] \in {"push", "pop"} =>
            /\ out[k][2] \in RecognizedSegments
            /\ out[k][2] = "POINTER" => out[k][3] \in {0, 1}

(***************************************************************************)
(* String constants                                                        *)
(***************************************************************************)
\* The places of the string constants in a token sequence.
StringPlaces(toks) ==
    {i \in 1..Len(toks) : token_type(toks[i]) = "STRING_CONST"}

\* The places of the calls of a function in the output.
CallPlaces(o, name) == {p \in 1..Len(o) : o[p][1] = "call" /\ o[p][2] = name}

\* The characters between the quotes of a string constant.
Characters(tok) == [k \in 1..(Len(tok) - 2) |-> tok[k + 1]]

\* C19: the j-th allocation of a string in the output belongs to the j-th
\* string constant of the text.  For a constant of n characters it is
\* push CONST n, call String.new 1, followed by exactly n pairs push CONST
\* code, call String.appendChar 2, one per character in source order, and
\* by no further append; for the empty string by none at all.  Compiled to
\* the end, the unit has as many allocations as string constants.
C19_StringConstant ==
    LET strings == StringPlaces(tokens)
        places == CallPlaces(out, String_new)
    IN  /\ Cardinality(places) <= Cardinality(strings)
        /\ status = "done" => Cardinality(places) = Cardinality(strings)
        /\ \A j \in 1..Cardinality(places) :
            LET p == Nth(places, j)
                chars == Characters(tokens[Nth(strings, j)])
                n == Len(chars)
            IN  /\ p > 1
                /\ out[p - 1] = <<"push", "CONST", n>>
                /\ out[p] = <<"call", String_new, 1>>
                /\ Len(out) >= p + 2 * n
                /\ \A i \in 1..n :
                    /\ out[p + 2 * i - 1] = <<"push", "CONST", ord(chars[i])>>
                    /\ out[p + 2 * i] = <<"call", String_appendChar, 2>>
                /\ Len(out) >= p + 2 * n + 2 =>
                        out[p + 2 * n + 2] # <<"call", String_appendChar, 2>>
                /\ Cardinality({q \in CallPlaces(out, String_appendChar) :
                                    q > p /\ (j < Cardinality(places) =>
                                                q < Nth(places, j + 1))}) = n

\* do B.f("x;y", "", "Hi */" + "a") is compiled: the codes 120, 59, 121
\* are appended to the first string, nothing to the second, five
\* characters to the third.
C19_Witness ==
    /\ status = "done"
    /\ \E p \in 1..Len(out) :
        /\ Len(out) >= p + 24
        /\ SubSeq(out, p, p + 9) =
            << <<"push", "CONST", 3>>, <<"call", String_new, 1>>,
               <<"push", "CONST", 120>>, <<"call", String_appendChar, 2>>,
               <<"push", "CONST", 59>>, <<"call", String_appendChar, 2>>,
               <<"push", "CONST", 121>>, <<"call", String_appendChar, 2>>,
               <<"push", "CONST", 0>>, <<"call", String_new, 1>> >>
        /\ out[p + 10] = <<"push", "CONST", 5>>
        /\ out[p + 11] = <<"call", String_new, 1>>
        /\ out[p + 13] = <<"call", String_appendChar, 2>>
        /\ out[p + 18] = <<"push", "CONST", 42>>

(***************************************************************************)
(* String constants in the text                                            *)
(***************************************************************************)
\* The string constants of a text as the language defines them: a quote
\* outside a comment opens a constant that the next quote closes, and
\* comments begin outside constants only.
RECURSIVE LiteralsFrom(_, _, _, _, _)
LiteralsFrom(text, k, mode, start, lits) ==
    IF k > Len(text) THEN lits
    ELSE CASE mode = "code" ->
                IF text[k] = "\""
                THEN LiteralsFrom(text, k + 1, "string", k, lits)
                ELSE IF Slice2(text, k - 1) = <<"/", "/">>
                THEN LiteralsFrom(text, k + 2, "line", 0, lits)
                ELSE IF Slice2(text, k - 1) = <<"/", "*">>
                THEN LiteralsFrom(text, k + 2, "block", 0, lits)
                ELSE LiteralsFrom(text, k + 1, "code", 0, lits)
           [] mode = "string" ->
                IF text[k] = "\""
                THEN LiteralsFrom(text, k + 1, "code", 0,
                                  Append(lits, SubSeq(text, start + 1, k - 1)))
                ELSE LiteralsFrom(text, k + 1, "string", start, lits)
           [] mode = "line" ->
                IF text[k] = "\n"
                THEN LiteralsFrom(text, k + 1, "code", 0, lits)
                ELSE LiteralsFrom(text, k + 1, "line", 0, lits)
           [] mode = "block" ->
                IF Slice2(text, k - 1) = <<"*", "/">>
                THEN LiteralsFrom(text, k + 2, "code", 0, lits)
                ELSE LiteralsFrom(text, k + 1, "block", 0, lits)

Literals(text) == LiteralsFrom(text, 1, "code", 0, <<>>)

\* C20: once the tokenizer is constructed, its tokens hold exactly one
\* STRING_CONST token for every string constant of the text, in order, and
\* string_val() of it is the characters between the quotes as written,
\* blanks, symbols and the sequences //, /* and */ included.
C20_StringTokensVerbatim ==
    tokenizer.phase = "constructed" =>
        LET lits == Literals(tokenizer.input_stream)
            strings == StringPlaces(tokens)
        IN  /\ Cardinality(strings) = Len(lits)
            /\ \A j \in 1..Len(lits) :
                    string_val(tokens[Nth(strings, j)]) = lits[j]

(***************************************************************************)
(* The classification of tokens                                            *)
(***************************************************************************)
\* A lexeme that is a name: not a keyword, a letter or underscore first,
\* letters, digits and underscores only.
IsIdentifierLexeme(tok) ==
    /\ tok \notin Keywords
    /\ Len(tok) > 0
    /\ tok[1] \in IdentifierStartChars
    /\ \A i \in 1..Len(tok) : tok[i] \in IdentifierStartChars \cup DigitChars

\* A lexeme of digits only whose value lies in 0..32767.
IsIntegerLexeme(tok) ==
    /\ Len(tok) > 0
    /\ \A i \in 1..Len(tok) : tok[i] \in DigitChars
    /\ int(tok) \in 0..32767

\* C21: once the tokenizer is constructed, token_type() says IDENTIFIER only
\* of a token that is a name, and INT_CONST exactly of the tokens of digits
\* with a value in 0..32767.
C21_TokenClasses ==
    tokenizer.phase = "constructed" =>
        \A k \in 1..Len(tokens) :
            /\ token_type(tokens[k]) = "IDENTIFIER" => IsIdentifierLexeme(tokens[k])
            /\ token_type(tokens[k]) = "INT_CONST" <=> IsIntegerLexeme(tokens[k])

(***************************************************************************)
(* Comments between tokens                                                 *)
(***************************************************************************)
\* The text with every comment replaced by one blank; comments begin outside
\* string constants only, a line comment ends before the end of its line.
RECURSIVE CommentsToBlanks(_, _, _, _)
CommentsToBlanks(text, k, mode, result) ==
    IF k > Len(text) THEN result
    ELSE CASE mode = "code" ->
                IF text[k] = "\""
                THEN CommentsToBlanks(text, k + 1, "string", Append(result, text[k]))
                ELSE IF Slice2(text, k - 1) = <<"/", "/">>
                THEN CommentsToBlanks(text, k + 2, "line", Append(result, " "))
                ELSE IF Slice2(text, k - 1) = <<"/", "*">>
                THEN CommentsToBlanks(text, k + 2, "block", Append(result, " "))
                ELSE CommentsToBlanks(text, k + 1, "code", Append(result, text[k]))
           [] mode = "string" ->
                CommentsToBlanks(text, k + 1,
                                 IF text[k] = "\"" THEN "code" ELSE "string",
                                 Append(result, text[k]))
           [] mode = "line" ->
                IF text[k] = "\n"
                THEN CommentsToBlanks(text, k + 1, "code", Append(result, text[k]))
                ELSE CommentsToBlanks(text, k + 1, "line", result)
           [] mode = "block" ->
                IF Slice2(text, k - 1) = <<"*", "/">>
                THEN CommentsToBlanks(text, k + 2, "code", result)
                ELSE CommentsToBlanks(text, k + 1, "block", result)

\* The tokens of a text that holds no comments.
TokensWithoutComments(text) == SplitTokens(IsolatedStrings(text), 1, <<>>)

\* C22: once the tokenizer is constructed, its tokens are those of the text
\* with every comment replaced by one blank: two lexemes with only a
\* comment between them are two tokens.
C22_CommentsSeparate ==
    tokenizer.phase = "constructed" =>
        tokens = TokensWithoutComments(
                    CommentsToBlanks(tokenizer.input_stream, 1, "code", <<>>))

(***************************************************************************)
(* while statements                                                        *)
(***************************************************************************)
\* The while statements that the unit holds.
Whiles(u) == {o \in UnitStatements(u) : o.s.s = "while"}

\* C25: a while statement is compiled to label START, code(condition), not,
\* if-goto END, code(body), goto START, label END; START and END are named
\* by no other instruction of the unit, those of the body included.
C25_WhileOrder ==
    status = "done" =>
        \A o \in Whiles(unit) :
            /\ Contains(out, WhileCode(ScopeOf(unit, o.f), unit.name,
                                       unit.subs[o.f].kind, o.s, o.k))
            /\ Cardinality(Naming(out, Label(WHILE_EXP, o.k))) = 2
            /\ Cardinality(Naming(out, Label(WHILE_END, o.k))) = 2

\* A while statement after other if or while statements, with one in its
\* body, is compiled.
C25_Witness ==
    /\ status = "done"
    /\ \E o \in Whiles(unit) :
        /\ CtlCount(o.s.body) > 0
        /\ o.k > 0
        /\ \E p \in 1..Len(out) : out[p] = <<"label", Label(WHILE_END, o.k)>>

(***************************************************************************)
(* Indexed reads                                                           *)
(***************************************************************************)
\* The terms name[expr] of an expression's own terms, those under a unary
\* operator included.
RECURSIVE IndexedIn(_)
IndexedIn(t) ==
    CASE t.t = "index" -> {t}
      [] t.t = "unary" -> IndexedIn(t.term)
      [] OTHER -> {}

\* Every indexed read of the unit: [f, t]; the reads inside index
\* expressions, arguments and parentheses are among them.
IndexedReads(u) ==
    UNION {{[f |-> o.f, t |-> t] :
                t \in UNION {IndexedIn(o.e.terms[j]) : j \in 1..Len(o.e.terms)}} :
           o \in UnitExpressions(u)}

\* C26: every indexed read name[expr] is compiled to push name, code(expr),
\* add, pop POINTER 1, push THAT 0 as one stretch; for a[b[j]] the stretch
\* of b[j] lies inside, before the add and the pop POINTER 1 of a.
C26_IndexedRead ==
    status = "done" =>
        \A o \in IndexedReads(unit) :
            Contains(out, IndexedReadCode(ScopeOf(unit, o.f), unit.name, o.t))

\* a[b[j]] is compiled: push a, push b, push j, add, pop POINTER 1,
\* push THAT 0, add, pop POINTER 1, push THAT 0.
C26_Witness ==
    /\ status = "done"
    /\ \E o \in IndexedReads(unit) :
        /\ o.t.index.terms[1].t = "index"
        /\ \E p \in 3..(Len(out) - 6) :
            /\ out[p - 2][1] = "push" /\ out[p - 1][1] = "push"
            /\ out[p][1] = "push"
            /\ SubSeq(out, p + 1, p + 6) =
                << <<"arithmetic", "+">>, <<"pop", "POINTER", 1>>,
                   <<"push", "THAT", 0>>, <<"arithmetic", "+">>,
                   <<"pop", "POINTER", 1>>, <<"push", "THAT", 0>> >>

(***************************************************************************)
(* The function instruction and the locals                                 *)
(***************************************************************************)
\* The local names a subroutine declares, over all its var declarations.
RECURSIVE LocalCount(_)
LocalCount(decs) ==
    IF decs = <<>> THEN 0 ELSE Len(Head(decs).names) + LocalCount(Tail(decs))

\* C27: the first instruction written for subroutine f is its function
\* instruction; it names Class.f and the number of local names that the var
\* declarations of f declare, whatever earlier subroutines declared, and
\* when it is written all these names are defined as VAR.
C27_FunctionAfterVarDecs ==
    [][\A f \in 1..Len(unit.subs) :
        LET sub == unit.subs[f]
        IN  (/\ current_function_name' = sub.name
             /\ FunctionCount(out) < f
             /\ out' # out) =>
                /\ Len(out') > Len(out)
                /\ SubSeq(out', 1, Len(out)) = out
                /\ out'[Len(out) + 1] =
                    <<"function", Dotted(unit.name, sub.name),
                      LocalCount(sub.locals)>>
                /\ \A name \in LocalNames(sub) :
                    /\ name \in DOMAIN subroutine_scope
                    /\ subroutine_scope[name].kind = "VAR"]_vars

\* The function instruction of a subroutine without locals is written
\* after that of a subroutine with three, declared in two var statements.
C27_Witness ==
    \E f \in 2..Len(unit.subs) :
        /\ FunctionCount(out) = f
        /\ LocalCount(unit.subs[f - 1].locals) = 3
        /\ Len(unit.subs[f - 1].locals) = 2
        /\ LocalCount(unit.subs[f].locals) = 0
        /\ out[FunctionPlace(out, f - 1)][3] = 3
        /\ out[FunctionPlace(out, f)][3] = 0

(***************************************************************************)
(* Jumps and their labels                                                  *)
(***************************************************************************)
\* The function instructions of o up to place p: the number of the function
\* block that place p lies in.
BlockOf(o, p) == Cardinality({q \in 1..p : IsFunction(o[q])})

\* The if statements without an else clause that the unit holds.
PlainIfs(u) == {o \in UnitStatements(u) : o.s.s = "if" /\ o.s.orelse = <<>>}

\* The places of o where label lb is defined.
Defining(o, lb) == {q \in 1..Len(o) : o[q] = <<"label", lb>>}

\* C28: in the output of a compiled unit every goto and if-goto names a
\* label that exactly one label instruction defines, and that instruction
\* lies in the same function block; both labels of an if statement without
\* else are defined once.
C28_JumpsHaveLabels ==
    status = "done" =>
        /\ \A p \in 1..Len(out) :
            out[p][1] \in {"goto", "if-goto"} =>
                /\ Cardinality(Defining(out, out[p][2])) = 1
                /\ \A q \in Defining(out, out[p][2]) :
                        BlockOf(out, q) = BlockOf(out, p)
        /\ \A o \in PlainIfs(unit) :
            /\ Cardinality(Defining(out, Label(IF_ELSE, o.k))) = 1
            /\ Cardinality(Defining(out, Label(IF_END, o.k))) = 1

\* A unit of two subroutines with jumps in both is compiled, an if
\* statement without else among them.
C28_Witness ==
    /\ status = "done"
    /\ PlainIfs(unit) # {}
    /\ \E p, q \in 1..Len(out) :
        /\ out[p][1] = "if-goto" /\ out[q][1] \in {"goto", "if-goto"}
        /\ BlockOf(out, p) = 1 /\ BlockOf(out, q) = 2

(***************************************************************************)
(* The argument count of a call                                            *)
(***************************************************************************)
\* What an instruction adds to the height of the stack.
Effect(i) ==
    CASE i[1] = "push" -> 1
      [] i[1] = "pop" -> -1
      [] i[1] = "arithmetic" -> (IF i[2] \in {"NEG", "NOT"} THEN 0 ELSE -1)
      [] i[1] = "call" -> 1 - i[3]
      [] i[1] \in {"if-goto", "return"} -> -1
      [] OTHER -> 0

\* The instructions that a statement, or the entry code of a subroutine,
\* ends with or jumps at; pop POINTER 1 stands inside an indexed read.
EndsStatement(i) ==
    \/ i[1] \in {"function", "label", "goto", "if-goto", "return"}
    \/ i[1] = "pop" /\ ~(i[2] = "POINTER" /\ i[3] = 1)

\* The values on the stack after instruction p of o that the code of the
\* statement p lies in has pushed and not taken off again.
RECURSIVE HeightAfter(_, _)
HeightAfter(o, p) ==
    IF p = 0 \/ EndsStatement(o[p]) THEN 0
    ELSE HeightAfter(o, p - 1) + Effect(o[p])

\* C29: the code of a statement has pushed, before each of its call
\* instructions, at least the argCount values that the call takes: one for
\* each expression that compile_expression_list counted and one for a
\* receiver.
C29_ArgCountIsPushed ==
    \A p \in 1..Len(out) :
        out[p][1] = "call" => HeightAfter(out, p - 1) >= out[p][3]

(***************************************************************************)
(* The lowering of the stack-machine program to assembly (projects/08).    *)
(* A line of the assembly text is a record: "@symbol" and "@n" are         *)
(* A_COMMANDs, "dest=comp;jump" is a C_COMMAND and "(symbol)" is an        *)
(* L_COMMAND.  The symbols are the texts the writer formats.  The comment  *)
(* lines the writer adds are left out: the assembler deletes them.         *)
(***************************************************************************)
A_SYMBOL(s) == [k |-> "A_COMMAND", symbol |-> s, address |-> -1]
A_NUMBER(n) == [k |-> "A_COMMAND", symbol |-> ToString(n), address |-> n]
C_COMMAND(dest, comp, jump) ==
    [k |-> "C_COMMAND", dest |-> dest, comp |-> comp, jump |-> jump]
L_COMMAND(s) == [k |-> "L_COMMAND", symbol |-> s]

\* CodeWriter.__init__
NewCodeWriter ==
    [filename |-> "", counter |-> 0, current_function_name |-> "",
     return_counter |-> 0, bootstrap_written |-> FALSE, output |-> <<>>]

\* output_stream.write
Written(w, lines) == [w EXCEPT !.output = @ \o lines]

_get_label_scope(w) ==
    IF w.current_function_name # "" THEN w.current_function_name
    ELSE w.filename

set_file_name(w, filename) ==
    [w EXCEPT !.filename = filename, !.current_function_name = "",
              !.return_counter = 0]

\* "@SP / A=M / M=D / @SP / M=M+1": D goes on the stack.
PushD ==
    <<A_SYMBOL("SP"), C_COMMAND("A", "M", ""), C_COMMAND("M", "D", ""),
      A_SYMBOL("SP"), C_COMMAND("M", "M+1", "")>>

\* add_, sub_, and_, or_: the top of the stack is taken into D and the
\* entry below it is replaced.
TwoOperands(comp) ==
    <<A_SYMBOL("SP"), C_COMMAND("AM", "M-1", ""), C_COMMAND("D", "M", ""),
      C_COMMAND("A", "A-1", ""), C_COMMAND("M", comp, "")>>

\* neg_, not_, shiftleft_, shiftright_: the top of the stack is replaced.
OneOperand(comp) ==
    <<A_SYMBOL("SP"), C_COMMAND("A", "M-1", ""), C_COMMAND("M", comp, "")>>

\* The difference of the two top entries and the jump that decides what
\* replaces them.
Difference ==
    <<A_SYMBOL("SP"), C_COMMAND("AM", "M-1", ""), C_COMMAND("D", "M", ""),
      C_COMMAND("A", "A-1", ""), C_COMMAND("D", "M-D", "")>>

\* eq_, gt_, lt_
Comparison(w, jump) ==
    LET push_true == "PUSH_TRUE" \o ToString(w.counter)
        end == "END" \o ToString(w.counter)
    IN  [Written(w,
            Difference
            \o <<A_SYMBOL(push_true), C_COMMAND("", "D", jump),
                 A_SYMBOL("SP"), C_COMMAND("A", "M-1", ""),
                 C_COMMAND("M", "0", ""),
                 A_SYMBOL(end), C_COMMAND("", "0", "JMP"),
                 L_COMMAND(push_true),
                 A_SYMBOL("SP"), C_COMMAND("A", "M-1", ""),
                 C_COMMAND("M", "-1", ""),
                 L_COMMAND(end)>>)
         EXCEPT !.counter = @ + 1]

ArithmeticCommands ==
    {"add", "sub", "neg", "and", "or", "not", "shiftleft", "shiftright",
     "eq", "gt", "lt"}

CodeWriter_write_arithmetic(w, command) ==
    CASE command = "add" -> Written(w, TwoOperands("M+D"))
      [] command = "sub" -> Written(w, TwoOperands("M-D"))
      [] command = "neg" -> Written(w, OneOperand("-M"))
      [] command = "and" -> Written(w, TwoOperands("M&D"))
      [] command = "or" -> Written(w, TwoOperands("M|D"))
      [] command = "not" -> Written(w, OneOperand("!M"))
      [] command = "shiftleft" -> Written(w, OneOperand("M<<1"))
      [] command = "shiftright" -> Written(w, OneOperand("M>>1"))
      [] command = "eq" -> Comparison(w, "JEQ")
      [] command = "gt" -> Comparison(w, "JGT")
      [] command = "lt" -> Comparison(w, "JLT")
      [] OTHER -> w

\* The register that holds the base of a segment.
SegmentPointer(segment) ==
    CASE segment = "local" -> "LCL"
      [] segment = "argument" -> "ARG"
      [] segment = "this" -> "THIS"
      [] segment = "that" -> "THAT"

PushCode(w, segment, index) ==
    CASE segment = "constant" ->
            <<A_NUMBER(index), C_COMMAND("D", "A", "")>> \o PushD
      [] segment \in {"local", "argument", "this", "that"} ->
            <<A_SYMBOL(SegmentPointer(segment)), C_COMMAND("D", "M", ""),
              A_NUMBER(index), C_COMMAND("A", "D+A", ""),
              C_COMMAND("D", "M", "")>> \o PushD
      [] segment = "static" ->
            <<A_SYMBOL(w.filename \o "." \o ToString(index)),
              C_COMMAND("D", "M", "")>> \o PushD
      [] segment = "temp" ->
            <<A_NUMBER(5 + index), C_COMMAND("D", "M", "")>> \o PushD
      [] segment = "pointer" ->
            <<A_NUMBER(3 + index), C_COMMAND("D", "M", "")>> \o PushD
      [] OTHER -> <<>>

\* "@SP / AM=M-1 / D=M": the top of the stack is taken into D.
PopD == <<A_SYMBOL("SP"), C_COMMAND("AM", "M-1", ""), C_COMMAND("D", "M", "")>>

PopCode(w, segment, index) ==
    CASE segment \in {"local", "argument", "this", "that"} ->
            <<A_NUMBER(index), C_COMMAND("D", "A", ""),
              A_SYMBOL(SegmentPointer(segment)), C_COMMAND("D", "M+D", ""),
              A_SYMBOL("R13"), C_COMMAND("M", "D", "")>>
            \o PopD
            \o <<A_SYMBOL("R13"), C_COMMAND("A", "M", ""),
                 C_COMMAND("M", "D", "")>>
      [] segment = "static" ->
            PopD \o <<A_SYMBOL(w.filename \o "." \o ToString(index)),
                      C_COMMAND("M", "D", "")>>
      [] segment = "temp" ->
            PopD \o <<A_NUMBER(5 + index), C_COMMAND("M", "D", "")>>
      [] segment = "pointer" ->
            PopD \o <<A_NUMBER(3 + index), C_COMMAND("M", "D", "")>>
      [] OTHER -> <<>>

write_push_pop(w, command, segment, index) ==
    CASE command = "C_PUSH" -> Written(w, PushCode(w, segment, index))
      [] command = "C_POP" -> Written(w, PopCode(w, segment, index))
      [] OTHER -> w

CodeWriter_write_label(w, label) ==
    Written(w, <<L_COMMAND(_get_label_scope(w) \o "$" \o label)>>)

CodeWriter_write_goto(w, label) ==
    Written(w, <<A_SYMBOL(_get_label_scope(w) \o "$" \o label),
                 C_COMMAND("", "0", "JMP")>>)

CodeWriter_write_if(w, label) ==
    Written(w, PopD \o <<A_SYMBOL(_get_label_scope(w) \o "$" \o label),
                         C_COMMAND("", "D", "JNE")>>)

\* "@SP / A=M / M=0 / @SP / M=M+1", n_vars times
RECURSIVE InitLocals(_)
InitLocals(n_vars) ==
    IF n_vars <= 0 THEN <<>>
    ELSE <<A_SYMBOL("SP"), C_COMMAND("A", "M", ""), C_COMMAND("M", "0", ""),
           A_SYMBOL("SP"), C_COMMAND("M", "M+1", "")>>
         \o InitLocals(n_vars - 1)

CodeWriter_write_function(w, function_name, n_vars) ==
    Written([w EXCEPT !.current_function_name = function_name,
                      !.return_counter = 0],
            <<L_COMMAND(function_name)>> \o InitLocals(n_vars))

\* "@symbol / D=M" and then D goes on the stack.
PushRegister(register) ==
    <<A_SYMBOL(register), C_COMMAND("D", "M", "")>> \o PushD

CodeWriter_write_call(w, function_name, n_args) ==
    LET scope == IF w.current_function_name = ""
                 THEN (IF w.filename # "" THEN w.filename ELSE "global")
                 ELSE w.current_function_name
        return_label == scope \o "$ret." \o ToString(w.return_counter)
    IN  Written([w EXCEPT !.return_counter = @ + 1],
            <<A_SYMBOL(return_label), C_COMMAND("D", "A", "")>> \o PushD
            \o PushRegister("LCL") \o PushRegister("ARG")
            \o PushRegister("THIS") \o PushRegister("THAT")
            \o <<A_SYMBOL("SP"), C_COMMAND("D", "M", ""),
                 A_NUMBER(5 + n_args), C_COMMAND("D", "D-A", ""),
                 A_SYMBOL("ARG"), C_COMMAND("M", "D", "")>>
            \o <<A_SYMBOL("SP"), C_COMMAND("D", "M", ""),
                 A_SYMBOL("LCL"), C_COMMAND("M", "D", "")>>
            \o <<A_SYMBOL(function_name), C_COMMAND("", "0", "JMP")>>
            \o <<L_COMMAND(return_label)>>)

\* 1. FRAME = LCL
SaveFrame ==
    <<A_SYMBOL("LCL"), C_COMMAND("D", "M", ""),
      A_SYMBOL("R13"), C_COMMAND("M", "D", "")>>

\* register = *(FRAME - n)
FromFrame(register, n) ==
    <<A_SYMBOL("R13"), C_COMMAND("D", "M", ""),
      A_NUMBER(n), C_COMMAND("A", "D-A", ""), C_COMMAND("D", "M", ""),
      A_SYMBOL(register), C_COMMAND("M", "D", "")>>

\* 3. *ARG = pop()
ReturnValue ==
    PopD \o <<A_SYMBOL("ARG"), C_COMMAND("A", "M", ""),
              C_COMMAND("M", "D", "")>>

\* 4. SP = ARG + 1
RestoreSP ==
    <<A_SYMBOL("ARG"), C_COMMAND("D", "M+1", ""),
      A_SYMBOL("SP"), C_COMMAND("M", "D", "")>>

\* 6. goto RET
GotoRET ==
    <<A_SYMBOL("R14"), C_COMMAND("A", "M", ""), C_COMMAND("", "0", "JMP")>>

\* The return address taken from the frame only after the return value is
\* put at ARG[0].
CodeWriter_write_return_late(w) ==
    Written(w, SaveFrame \o ReturnValue \o FromFrame("R14", 5) \o RestoreSP
               \o FromFrame("THAT", 1) \o FromFrame("THIS", 2)
               \o FromFrame("ARG", 3) \o FromFrame("LCL", 4) \o GotoRET)

CodeWriter_write_return(w) ==
    Written(w, SaveFrame \o FromFrame("R14", 5) \o ReturnValue \o RestoreSP
               \o FromFrame("THAT", 1) \o FromFrame("THIS", 2)
               \o FromFrame("ARG", 3) \o FromFrame("LCL", 4) \o GotoRET)

(***************************************************************************)
(* The assembler (projects/06) as far as the symbols go, and the computer  *)
(* the assembled program runs on: the registers A and D, the program       *)
(* counter and a memory of 16-bit words.  A word that was never written    *)
(* holds 0.                                                                *)
(***************************************************************************)
\* SymbolTable.__init__: the table is a set of <<symbol, address>>.
PredefinedSymbols ==
    {<<"R" \o ToString(r), r>> : r \in 0..15}
    \cup {<<"SCREEN", 16384>>, <<"KBD", 24576>>, <<"SP", 0>>, <<"LCL", 1>>,
          <<"ARG", 2>>, <<"THIS", 3>>, <<"THAT", 4>>}

contains(table, s) == \E e \in table : e[1] = s
get_address(table, s) == (CHOOSE e \in table : e[1] = s)[2]
add_entry(table, s, address) ==
    {e \in table : e[1] # s} \cup {<<s, address>>}

\* The lines that are instructions.
IsInstruction(line) == line.k # "L_COMMAND"

\* proccess_labels: the label lines are taken out, and a label is the
\* address of the next instruction; a later label of the same text
\* overwrites an earlier one.
proccess_labels(lines) ==
    LET labels == {k \in 1..Len(lines) : lines[k].k = "L_COMMAND"}
        last(s) == CHOOSE k \in labels :
                        /\ lines[k].symbol = s
                        /\ \A m \in labels : lines[m].symbol = s => m <= k
        address(k) ==
            Cardinality({m \in 1..k : IsInstruction(lines[m])})
    IN  [lines |-> SelectSeq(lines, IsInstruction),
         table |-> {e \in PredefinedSymbols :
                        \A k \in labels : lines[k].symbol # e[1]}
                   \cup {<<lines[k].symbol, address(last(lines[k].symbol))>> :
                            k \in labels}]

\* proccess_variables: a symbol that is neither a number nor in the table
\* is a variable; the variables get the addresses from 16 on in the order
\* they first occur.
proccess_variables(lines, table) ==
    LET variables == {k \in 1..Len(lines) :
                        /\ lines[k].k = "A_COMMAND"
                        /\ lines[k].address < 0
                        /\ ~contains(table, lines[k].symbol)}
        first(k) == \A m \in variables :
                        lines[m].symbol = lines[k].symbol => k <= m
        firsts == {k \in variables : first(k)}
        allocated(s) ==
            16 + Cardinality({k \in firsts :
                                \E m \in firsts : /\ lines[m].symbol = s
                                                   /\ k < m})
    IN  [k \in 1..Len(lines) |->
            IF lines[k].k # "A_COMMAND" \/ lines[k].address >= 0
            THEN lines[k]
            ELSE IF contains(table, lines[k].symbol)
            THEN [lines[k] EXCEPT !.address = get_address(table, lines[k].symbol)]
            ELSE [lines[k] EXCEPT !.address = allocated(lines[k].symbol)]]

\* assemble_file: the instructions with every symbol resolved.
assemble_file(lines) ==
    LET labelled == proccess_labels(lines)
    IN  proccess_variables(labelled.lines, labelled.table)

\* The address of a label of the text.
LabelAddress(lines, s) == get_address(proccess_labels(lines).table, s)

ReadRam(ram, a) == IF a \in DOMAIN ram THEN ram[a] ELSE 0
WriteRam(ram, a, v) ==
    [b \in DOMAIN ram \cup {a} |-> IF b = a THEN v ELSE ram[b]]

RECURSIVE BitOr(_, _, _)
BitOr(x, y, n) ==
    IF n = 0 THEN 0
    ELSE (IF x % 2 = 1 \/ y % 2 = 1 THEN 1 ELSE 0)
         + 2 * BitOr(x \div 2, y \div 2, n - 1)

\* What the ALU computes, as a 16-bit word.  The two shifts belong to an
\* extension of the computer and are not run here.
Comp(comp, A, D, M) ==
    CASE comp = "0" -> 0
      [] comp = "-1" -> 65535
      [] comp = "A" -> A
      [] comp = "D" -> D
      [] comp = "M" -> M
      [] comp = "A-1" -> Wrap(A - 1)
      [] comp = "M-1" -> Wrap(M - 1)
      [] comp = "M+1" -> Wrap(M + 1)
      [] comp = "D+A" -> Wrap(D + A)
      [] comp = "D-A" -> Wrap(D - A)
      [] comp = "M+D" -> Wrap(M + D)
      [] comp = "M-D" -> Wrap(M - D)
      [] comp = "-M" -> Wrap(-M)
      [] comp = "!M" -> 65535 - M
      [] comp = "M&D" -> BitAnd(M, D, 16)
      [] comp = "M|D" -> BitOr(M, D, 16)

\* Whether the jump is taken for the value the ALU computed.
Jumps(jump, v) ==
    CASE jump = "" -> FALSE
      [] jump = "JGT" -> Signed(v) > 0
      [] jump = "JEQ" -> v = 0
      [] jump = "JLT" -> Signed(v) < 0
      [] jump = "JNE" -> v # 0
      [] jump = "JMP" -> TRUE

\* The instruction the computer is at.
Fetched(c) == c.rom[c.PC + 1]

Running(c) == c.phase = "running" /\ c.PC < Len(c.rom)

\* "@address"
LoadA(c) == [c EXCEPT !.A = Fetched(c).address, !.PC = @ + 1]

\* "dest=comp;jump": the memory word is the one A addresses before the
\* instruction, and so is the target of the jump.
Computed(c) ==
    LET ins == Fetched(c)
        v == Comp(ins.comp, c.A, c.D, ReadRam(c.ram, c.A))
    IN  [c EXCEPT
            !.A = IF ins.dest \in {"A", "AM", "AD", "AMD"} THEN v ELSE @,
            !.D = IF ins.dest \in {"D", "AD", "MD", "AMD"} THEN v ELSE @,
            !.ram = IF ins.dest \in {"M", "AM", "MD", "AMD"}
                    THEN WriteRam(@, c.A, v) ELSE @,
            !.PC = IF Jumps(ins.jump, v) THEN c.A ELSE @ + 1]

\* translate_file, from the command the parser holds to the writer's method.
Dispatch(w, command_type, arg1, arg2) ==
    CASE command_type = "C_ARITHMETIC" -> CodeWriter_write_arithmetic(w, arg1)
      [] command_type \in {"C_PUSH", "C_POP"} ->
            write_push_pop(w, command_type, arg1, arg2)
      [] command_type = "C_LABEL" -> CodeWriter_write_label(w, arg1)
      [] command_type = "C_GOTO" -> CodeWriter_write_goto(w, arg1)
      [] command_type = "C_IF" -> CodeWriter_write_if(w, arg1)
      [] command_type = "C_FUNCTION" -> CodeWriter_write_function(w, arg1, arg2)
      [] command_type = "C_CALL" -> CodeWriter_write_call(w, arg1, arg2)
      [] command_type = "C_RETURN" -> CodeWriter_write_return(w)
      [] OTHER -> w

\* The commands of a file one after the other, each [type, arg1, arg2].
RECURSIVE Translated(_, _, _)
Translated(w, commands, k) ==
    IF k > Len(commands) THEN w
    ELSE Translated(Dispatch(w, commands[k].type, commands[k].arg1,
                             commands[k].arg2),
                    commands, k + 1)

Command(type, arg1, arg2) == [type |-> type, arg1 |-> arg1, arg2 |-> arg2]
Arithmetic(command) == Command("C_ARITHMETIC", command, 0)
PushConstant(n) == Command("C_PUSH", "constant", n)

\* The assembly of the file F.vm that holds the commands.
AssemblyOf(commands) ==
    Translated(set_file_name(NewCodeWriter, "F"), commands, 1).output

(***************************************************************************)
(* The runs of translated programs.  One family compares two words that    *)
(* are on the stack; the other calls a function with n arguments that are  *)
(* on the stack and goes on after the call.                                *)
(***************************************************************************)
MaxCallArgs == 2
MaxCallLocals == 1

\* The words compared: the ends of the range and their neighbours.
WordMenu16 == {0, 1, 2, 32767, 32768, 32769, 65534, 65535}

Comparisons == {"eq", "gt", "lt"}

\* The bodies of the callee F.f, each with the word it returns.
BodyMenu ==
    << [code |-> <<PushConstant(7)>>, value |-> 7, args |-> 0, locals |-> 0],
       [code |-> <<PushConstant(3000), Command("C_POP", "pointer", 0),
                   PushConstant(4000), Command("C_POP", "pointer", 1),
                   PushConstant(9), Command("C_POP", "that", 2),
                   Command("C_PUSH", "that", 2), Arithmetic("neg")>>,
        value |-> 65527, args |-> 0, locals |-> 0],
       [code |-> <<Command("C_PUSH", "argument", 0), PushConstant(1),
                   Arithmetic("add")>>,
        value |-> 12, args |-> 1, locals |-> 0],
       [code |-> <<Command("C_PUSH", "local", 0), Arithmetic("not"),
                   Command("C_POP", "local", 0),
                   Command("C_PUSH", "local", 0)>>,
        value |-> 65535, args |-> 0, locals |-> 1],
       [code |-> <<PushConstant(21), Command("C_CALL", "F.g", 1)>>,
        value |-> 42, args |-> 0, locals |-> 0] >>

\* The caller's registers before the call.
FrameMenu ==
    << [SP |-> 256, LCL |-> 300, ARG |-> 400, THIS |-> 3000, THAT |-> 3010],
       [SP |-> 261, LCL |-> 261, ARG |-> 256, THIS |-> 0, THAT |-> 65535] >>

\* The file of the call: F.main calls F.f and loops; F.f returns a word;
\* F.g returns the double of its argument.  A run of it knows where the
\* code after the call begins (resume) and where the code of F.f's return
\* ends (exit).
CallProgram(n, n_vars, body) ==
    <<Command("C_FUNCTION", "F.main", 0), Command("C_CALL", "F.f", n),
      Command("C_LABEL", "END", 0), Command("C_GOTO", "END", 0),
      Command("C_FUNCTION", "F.f", n_vars)>>
    \o BodyMenu[body].code
    \o <<Command("C_RETURN", "", 0),
         Command("C_FUNCTION", "F.g", 0),
         Command("C_PUSH", "argument", 0), Command("C_PUSH", "argument", 0),
         Arithmetic("add"), Command("C_RETURN", "", 0)>>

\* The n arguments 11, 12, ... on the stack from address base on.
RECURSIVE WithArguments(_, _, _)
WithArguments(ram, base, n) ==
    IF n = 0 THEN ram
    ELSE WithArguments(WriteRam(ram, base + n - 1, 10 + n), base, n - 1)

Loaded(text, ram, scenario) ==
    [phase |-> "running", rom |-> assemble_file(text), A |-> 0, D |-> 0,
     PC |-> 0, ram |-> ram, scenario |-> scenario]

InitCompare ==
    \E command \in Comparisons, x \in WordMenu16, y \in WordMenu16 :
        cpu = Loaded(AssemblyOf(<<Arithmetic(command)>>),
                     WriteRam(WriteRam(WriteRam(<<>>, 0, 258), 256, x), 257, y),
                     [kind |-> "compare", command |-> command,
                      x |-> x, y |-> y])

InitCall ==
    \E n \in 0..MaxCallArgs, n_vars \in 0..MaxCallLocals,
       body \in 1..Len(BodyMenu), f \in 1..Len(FrameMenu) :
        /\ n >= BodyMenu[body].args
        /\ n_vars >= BodyMenu[body].locals
        /\ LET frame == FrameMenu[f]
               text == AssemblyOf(CallProgram(n, n_vars, body))
               registers ==
                   WriteRam(WriteRam(WriteRam(WriteRam(WriteRam(<<>>,
                       0, frame.SP + n), 1, frame.LCL), 2, frame.ARG),
                       3, frame.THIS), 4, frame.THAT)
           IN  cpu = Loaded(text, WithArguments(registers, frame.SP, n),
                       [kind |-> "call", n |-> n, frame |-> frame,
                        value |-> BodyMenu[body].value,
                        resume |-> LabelAddress(text, "F.main$ret.0"),
                        exit |-> LabelAddress(text, "F.g") - 1])

InitHack ==
    /\ unit = NoUnit
    /\ tokens = <<>>
    /\ tokenizer = Constructed
    /\ translator = [phase |-> "none"]
    /\ InitEngine
    /\ (InitCompare \/ InitCall)

HackUnchanged ==
    UNCHANGED <<unit, tokens, current_index, current_token, class_scope,
                subroutine_scope, counts, current_class, subroutine_type,
                current_function_name, label_counter, out, stack, retval,
                status, tokenizer, translator>>

\* The computer runs an A-instruction.
a_instruction ==
    /\ Running(cpu)
    /\ Fetched(cpu).k = "A_COMMAND"
    /\ cpu' = LoadA(cpu)
    /\ HackUnchanged

\* The computer runs a C-instruction.
c_instruction ==
    /\ Running(cpu)
    /\ Fetched(cpu).k = "C_COMMAND"
    /\ cpu' = Computed(cpu)
    /\ HackUnchanged

NextHack == a_instruction \/ c_instruction

SpecHack == InitHack /\ [][NextHack]_vars

(***************************************************************************)
(* C23                                                                     *)
(***************************************************************************)
\* Whether the comparison holds of the words x and y read as signed numbers.
Holds(command, x, y) ==
    CASE command = "eq" -> x = y
      [] command = "gt" -> Signed(x) > Signed(y)
      [] command = "lt" -> Signed(x) < Signed(y)

\* The run of a comparison has come to the end of its code.
Compared ==
    /\ cpu.phase = "running"
    /\ cpu.scenario.kind = "compare"
    /\ cpu.PC = Len(cpu.rom)

\* C23: when the code of eq, gt or lt has run on a stack that holds x below
\* y, the two words are replaced by one word, which is -1 if x = y, x > y or
\* x < y holds of the signed values and 0 if not, whatever 16-bit words x
\* and y are.
C23_ComparisonsExact ==
    Compared =>
        /\ ReadRam(cpu.ram, 0) = 257
        /\ ReadRam(cpu.ram, 256) =
            Truth(Holds(cpu.scenario.command, cpu.scenario.x, cpu.scenario.y))

(***************************************************************************)
(* C30                                                                     *)
(***************************************************************************)
\* The computer is at the last instruction of the return of F.f, the
\* function that F.main called.
AtExit ==
    /\ cpu.phase = "running"
    /\ cpu.scenario.kind = "call"
    /\ cpu.PC = cpu.scenario.exit

\* The caller's registers are what they were before the call, SP is n - 1
\* below what it was, and the word the callee returned is on top.
Restored(c) ==
    LET s == c.scenario
    IN  /\ ReadRam(c.ram, 1) = s.frame.LCL
        /\ ReadRam(c.ram, 2) = s.frame.ARG
        /\ ReadRam(c.ram, 3) = s.frame.THIS
        /\ ReadRam(c.ram, 4) = s.frame.THAT
        /\ ReadRam(c.ram, 0) = (s.frame.SP + s.n) - s.n + 1
        /\ ReadRam(c.ram, ReadRam(c.ram, 0) - 1) = s.value

\* C30: the step that ends the return of the function called with n
\* arguments goes to the instruction after the code of the call, with LCL,
\* ARG, THIS and THAT as they were before the call, SP at its value before
\* the call minus n plus 1 and the returned word on top of the stack; n = 0
\* included.
C30_CallReturnRestores ==
    [][AtExit => (cpu'.PC = cpu.scenario.resume /\ Restored(cpu'))]_vars

\* A call without arguments has returned: the returned word lies where the
\* return address was saved.
C30_Witness ==
    /\ cpu.phase = "running"
    /\ cpu.scenario.kind = "call"
    /\ cpu.scenario.n = 0
    /\ cpu.PC = cpu.scenario.resume
    /\ Restored(cpu)
    /\ ReadRam(cpu.ram, cpu.scenario.frame.SP) = cpu.scenario.value

(***************************************************************************)
(* The translation of a file (projects/08): Parser and translate_file.     *)
(* A line of the file is a sequence of characters.                         *)
(***************************************************************************)
\* str.isspace, str.startswith('//'), str.strip
isspace(s) == Len(s) > 0 /\ \A k \in 1..Len(s) : s[k] \in WhitespaceChars
startswith_slashes(s) == Len(s) >= 2 /\ s[1] = "/" /\ s[2] = "/"
strip(s) ==
    LET kept == {k \in 1..Len(s) : s[k] \notin WhitespaceChars}
    IN  IF kept = {} THEN <<>>
        ELSE SubSeq(s, Nth(kept, 1), Nth(kept, Cardinality(kept)))

\* s.split('//')[0]
BeforeSlashes(s) ==
    LET at == {k \in 1..(Len(s) - 1) : s[k] = "/" /\ s[k + 1] = "/"}
    IN  IF at = {} THEN s ELSE SubSeq(s, 1, Nth(at, 1) - 1)

\* s.split(' ')
SplitAtBlanks(s) ==
    LET blanks == {k \in 1..Len(s) : s[k] = " "}
        n == Cardinality(blanks)
        from(k) == IF k = 1 THEN 1 ELSE Nth(blanks, k - 1) + 1
        to(k) == IF k = n + 1 THEN Len(s) ELSE Nth(blanks, k) - 1
    IN  [k \in 1..(n + 1) |-> SubSeq(s, from(k), to(k))]

\* The characters as one string.
RECURSIVE Join(_)
Join(s) == IF s = <<>> THEN "" ELSE s[1] \o Join(Tail(s))

\* Parser.__init__
NewParser(input_lines) == [input_lines |-> input_lines, cur_com |-> <<>>]

has_more_commands(p) == Len(p.input_lines) > 0

\* The loop of advance: lines that start with //, are blank or empty are
\* passed over while there are lines left.
RECURSIVE PassedOver(_)
PassedOver(p) ==
    IF /\ (startswith_slashes(p.cur_com) \/ isspace(p.cur_com)
            \/ p.cur_com = <<>>)
       /\ has_more_commands(p)
    THEN PassedOver([input_lines |-> Tail(p.input_lines),
                     cur_com |-> Head(p.input_lines)])
    ELSE p

Parser_advance(p) ==
    LET read == PassedOver([input_lines |-> Tail(p.input_lines),
                            cur_com |-> Head(p.input_lines)])
    IN  [read EXCEPT !.cur_com = strip(BeforeSlashes(strip(@)))]

command_type(p) ==
    LET first_arg == Join(SplitAtBlanks(p.cur_com)[1])
    IN  CASE first_arg = "push" -> "C_PUSH"
          [] first_arg = "pop" -> "C_POP"
          [] first_arg \in ArithmeticCommands -> "C_ARITHMETIC"
          [] first_arg = "label" -> "C_LABEL"
          [] first_arg = "goto" -> "C_GOTO"
          [] first_arg = "if-goto" -> "C_IF"
          [] first_arg = "function" -> "C_FUNCTION"
          [] first_arg = "call" -> "C_CALL"
          [] first_arg = "return" -> "C_RETURN"
          [] OTHER -> "None"

arg1(p) ==
    IF command_type(p) = "C_ARITHMETIC" THEN Join(p.cur_com)
    ELSE IF command_type(p) \in {"C_PUSH", "C_POP", "C_LABEL", "C_GOTO",
                                 "C_IF", "C_FUNCTION", "C_CALL"}
    THEN Join(SplitAtBlanks(p.cur_com)[2])
    ELSE "None"

arg2(p) ==
    IF command_type(p) \in {"C_PUSH", "C_POP", "C_FUNCTION", "C_CALL"}
    THEN int(SplitAtBlanks(p.cur_com)[3])
    ELSE 0

\* Whether the accessors translate_file calls for the command succeed.
Accessible(p) ==
    LET words == SplitAtBlanks(p.cur_com)
    IN  /\ command_type(p) \in {"C_PUSH", "C_POP", "C_LABEL", "C_GOTO",
                                "C_IF", "C_FUNCTION", "C_CALL"}
            => Len(words) >= 2
        /\ command_type(p) \in {"C_PUSH", "C_POP", "C_FUNCTION", "C_CALL"}
            => Len(words) >= 3 /\ isdigit(words[3])

MaxLines == 3

\* The lines a file is made of: commands, with blanks before them and
\* comments after them, and lines without a command.
LineMenu ==
    << <<"p", "u", "s", "h", " ", "c", "o", "n", "s", "t", "a", "n", "t", " ", "7">>,
       <<"a", "d", "d">>,
       <<"e", "q">>,
       <<"p", "o", "p", " ", "l", "o", "c", "a", "l", " ", "0">>,
       <<" ", " ", "n", "e", "g">>,
       <<"a", "d", "d", " ", "/", "/", " ", "s", "u", "m">>,
       <<"p", "u", "s", "h", " ", "c", "o", "n", "s", "t", "a", "n", "t", " ", "7", "/", "/", " ", "c">>,
       <<>>,
       <<" ", " ">>,
       <<"\t">>,
       <<"/", "/", " ", "c">>,
       <<" ", " ", "/", "/", " ", "c">>,
       <<"\t", "/", "/", " ", "c">> >>

Files ==
    UNION {[1..n -> {LineMenu[k] : k \in 1..Len(LineMenu)}] : n \in 0..MaxLines}

InitTranslate ==
    /\ unit = NoUnit
    /\ tokens = <<>>
    /\ tokenizer = Constructed
    /\ cpu = [phase |-> "none"]
    /\ InitEngine
    /\ \E input_file \in Files :
        translator = [phase |-> "start", input_file |-> input_file,
                      parser |-> NewParser(<<>>),
                      code_writer |-> NewCodeWriter]

TranslateUnchanged ==
    UNCHANGED <<unit, tokens, current_index, current_token, class_scope,
                subroutine_scope, counts, current_class, subroutine_type,
                current_function_name, label_counter, out, stack, retval,
                status, tokenizer, cpu>>

\* translate_file up to its loop: the parser is made and the writer is told
\* the name of the file.
translate_file ==
    /\ translator.phase = "start"
    /\ translator' =
        [translator EXCEPT !.phase = "loop",
                           !.parser = NewParser(translator.input_file),
                           !.code_writer = set_file_name(@, "F")]
    /\ TranslateUnchanged

\* One round of the loop that finds a command: the writer's method for the
\* command is called.
translate_command ==
    /\ translator.phase = "loop"
    /\ has_more_commands(translator.parser)
    /\ LET p == Parser_advance(translator.parser)
       IN  /\ p.cur_com # <<>>
           /\ translator' =
                IF Accessible(p)
                THEN [translator EXCEPT
                        !.parser = p,
                        !.code_writer =
                            Dispatch(@, command_type(p), arg1(p), arg2(p))]
                ELSE [translator EXCEPT !.parser = p, !.phase = "error"]
    /\ TranslateUnchanged

\* The round of the loop in which advance() leaves '' as the command: break.
translate_break ==
    /\ translator.phase = "loop"
    /\ has_more_commands(translator.parser)
    /\ LET p == Parser_advance(translator.parser)
       IN  /\ p.cur_com = <<>>
           /\ translator' = [translator EXCEPT !.parser = p, !.phase = "done"]
    /\ TranslateUnchanged

\* The loop ends when no lines are left.
translate_end ==
    /\ translator.phase = "loop"
    /\ ~has_more_commands(translator.parser)
    /\ translator' = [translator EXCEPT !.phase = "done"]
    /\ TranslateUnchanged

NextTranslate ==
    translate_file \/ translate_command \/ translate_break \/ translate_end

SpecTranslate == InitTranslate /\ [][NextTranslate]_vars

(***************************************************************************)
(* C24                                                                     *)
(***************************************************************************)
\* A line holds a command if something is left of it without its comment
\* and the blanks around it.
HoldsCommand(line) == strip(BeforeSlashes(line)) # <<>>

\* The output the commands of the lines give, one block after the other.
RECURSIVE Blocks(_, _, _)
Blocks(w, lines, k) ==
    IF k > Len(lines) THEN w.output
    ELSE LET p == [input_lines |-> <<>>,
                   cur_com |-> strip(BeforeSlashes(lines[k]))]
         IN  Blocks(Dispatch(w, command_type(p), arg1(p), arg2(p)),
                    lines, k + 1)

\* C24: when translate_file is through with a file, the output holds the
\* block of every command of the file, in the order of the file, and nothing
\* else: lines that are empty, blank or only a comment (indented or not) and
\* comments after a command give no output and do not end the translation.
C24_EveryCommandTranslated ==
    translator.phase = "done" =>
        translator.code_writer.output =
            Blocks(set_file_name(NewCodeWriter, "F"),
                   SelectSeq(translator.input_file, HoldsCommand), 1)

====
